---- MODULE Spec2Model ----
(***************************************************************************)
(* A model of the HR training dashboard.                                   *)
(*                                                                         *)
(* Spec        : one call of recommend (models/recommender.py), with       *)
(*               build_signals, over small catalog and history tables.     *)
(* PageSpec    : the recommendations page (pages/5) preparing that call.   *)
(* RepeatSpec  : recommend called again and again on the same tables.      *)
(* ClusterSpec : perform_clustering (app.py) on a table of records.        *)
(* SessionSpec : the runs of the dashboard script (app.py, main) over the  *)
(*               session's training data.                                  *)
(* ServiceSpec : list_employees (src/services/employees.py) over the      *)
(*               backend switch, the remote store and the sample file.     *)
(* IngestSpec  : tools/ingest_catalog.py, main and normalize.              *)
(* PredictiveSpec : the Predictive Analytics page (pages/6) and its        *)
(*               trainer (models/train_models.py).                         *)
(* NotifySpec  : the runs of the notifications page (pages/9).             *)
(* GeneratorSpec : data_generator.py run as a script, with                 *)
(*               calculate_department_stats and generate_ml_features.      *)
(*                                                                         *)
(* A table (pandas DataFrame) is a record                                  *)
(*     [none, columns, index, rows]                                        *)
(* none    : TRUE for Python's None passed in place of a table,            *)
(* columns : the set of column names,                                      *)
(* index   : the row labels (0-based positions of the originating table),  *)
(* rows    : one function (column name -> cell) per row.                   *)
(*                                                                         *)
(* Floating point cells are exact rationals [t |-> "num", n, d] or NaN;    *)
(* weights and boosts are kept in hundredths.  Department and Section      *)
(* cells carry their Python type, so that str() is a real conversion.      *)
(***************************************************************************)
EXTENDS Integers, Sequences, FiniteSets, TLC

VARIABLES emp_row, history, catalog, topn, pc, cat, df, result, raised, trace,
          emp, tr, sorter, earlier, filtered_df, employee_metrics,
          training_data,
          environ, BACKEND, supabase, employees_sample, contacted, listed,
          input_file, outdir, normal,
          MODEL_file, DATA_file, pipe, exit_code, shown, form, message,
          notifications, unread_count, clicked, read_rate, clicks,
          training_df, dept_stats, ml_features

vars == <<emp_row, history, catalog, topn, pc, cat, df, result, raised, trace,
          emp, tr, sorter, earlier, filtered_df, employee_metrics,
          training_data,
          environ, BACKEND, supabase, employees_sample, contacted, listed,
          input_file, outdir, normal,
          MODEL_file, DATA_file, pipe, exit_code, shown, form, message,
          notifications, unread_count, clicked, read_rate, clicks,
          training_df, dept_stats, ml_features>>

\* The tables of the recommendations page (pages/5): no statement of
\* recommend reads or writes them.
page == <<emp, tr>>

\* sorter: the orders that the build's argsort has given to the score
\* columns sorted so far (a fixed function of the column, learnt call by
\* call).  earlier: the arguments and the outcome of one earlier call of
\* recommend, None before any.
calls == <<sorter, earlier>>

\* st.session_state of the dashboard (app.py): the stored records, and the
\* widgets of the Add Record form with the message shown under it.
session == <<training_data, form, message>>

\* The tables of the dashboard: the records handed to perform_clustering,
\* the per-employee metrics and the session.
app == <<filtered_df, employee_metrics, session>>

\* The recommender with its page, and the dashboard.
recommender_and_app ==
    <<emp_row, history, catalog, topn, cat, df, result, trace, emp, tr,
      sorter, earlier, filtered_df, employee_metrics, training_data, form,
      message>>

\* The employee service (src/services/employees.py): the process
\* environment, the backend switch read at import, the remote store, the
\* local sample file, whether the remote store has been queried, and the
\* table that list_employees returned.
service == <<environ, BACKEND, supabase, employees_sample, contacted, listed>>

\* Catalog ingestion (tools/ingest_catalog.py): the table of the input
\* file, the output directory, and the table df of main and normalize.
ingest == <<input_file, outdir, normal>>

\* The Predictive Analytics page (pages/6) and its trainer
\* (models/train_models.py): the model artifact and the data file on disk,
\* the page's pipe, the trainer's exit code and the messages of this run.
predictive == <<MODEL_file, DATA_file, pipe, exit_code, shown>>

\* The notifications page (pages/9): the session's list and unread count,
\* the button whose click started this run, the footer's read rate, and
\* the buttons clicked so far.
notify == <<notifications, unread_count, clicked, read_rate, clicks>>

\* The data generator (data_generator.py, run as a script): the generated
\* records, and the tables of calculate_department_stats and
\* generate_ml_features.
generator == <<training_df, dept_stats, ml_features>>

\* The programs beside the recommender and the dashboard.
tools == <<service, ingest, predictive, notify, generator>>

\* What the employee service leaves alone.
beside_service == <<recommender_and_app, ingest, predictive, notify, generator>>
\* What catalog ingestion leaves alone.
beside_ingest == <<recommender_and_app, service, predictive, notify, generator>>
\* What the Predictive Analytics page leaves alone.
beside_predictive == <<recommender_and_app, service, ingest, notify, generator>>
\* What the notifications page leaves alone.
beside_notify == <<recommender_and_app, service, ingest, predictive, generator>>
\* What the data generator leaves alone.
beside_generator == <<recommender_and_app, service, ingest, predictive, notify>>


\* ------------------------------------------------------------------ bounds

\* Largest number of catalog rows.
MaxCat == 2
\* Largest number of history rows.
MaxHist == 2
\* Largest explicit top-N request.
MaxTopN == 1

\* The rows of an input file of catalog ingestion.
MaxRows == 1

\* The rows of one class in the trainer's data file.
MaxClass == 5

\* The clicks of the user on the notifications page.
MaxClicks == 4

\* ------------------------------------------------------- program constants

W_COMPLETION == 50
W_COST_EFF == 35
W_POPULAR == 15
BOOST_DEPT == 200
BOOST_SECT == 150
TOPN_DEFAULT == 8

CAT_REQ == <<"Course", "Provider", "Department", "Section", "Level", "Hours",
             "Cost_KWD", "Skills">>

cols == <<"Course", "Provider", "Department", "Section", "Level", "Hours",
          "Cost_KWD", "Skills", "CompletionRate", "CostEfficiency",
          "Popularity", "score">>

\* ------------------------------------------------------------------ cells

Range(s) == {s[i] : i \in DOMAIN s}

\* A float: the rational n/d (d > 0).
Num(n, d) == [t |-> "num", n |-> n, d |-> d]
\* A missing float (NaN, pd.NA).
NaN == [t |-> "nan", n |-> 0, d |-> 1]
\* A Cost_KWD cell holding text that is no number ("free").
TextCost == [t |-> "str", n |-> 0, d |-> 1]

IsNum(x) == x.t = "num"
Leq(a, b) == a.n * b.d <= b.n * a.d
Less(a, b) == a.n * b.d < b.n * a.d
SameNum(a, b) == IsNum(a) /\ IsNum(b) /\ a.n * b.d = b.n * a.d

\* A text cell and an integer cell (v holds its decimal digits); a missing
\* cell has t = "nan".
Text(s) == [t |-> "str", v |-> s]
IntCell(s) == [t |-> "int", v |-> s]

\* Python's str(): text is unchanged, 7 becomes "7", NaN becomes "nan".
str(c) == Text(IF c.t = "nan" THEN "nan" ELSE c.v)

\* Series.get(key, default) / dict.get(key, default).
get(row, key, default) == IF key \in DOMAIN row THEN row[key] ELSE default

\* pandas' elementwise ==: values of different types are unequal, and a
\* missing value equals nothing.
PdEq(a, b) == a.t # "nan" /\ b.t # "nan" /\ a = b

\* ----------------------------------------------------------------- tables

Frame(columns, index, rows) ==
    [none |-> FALSE, columns |-> columns, index |-> index, rows |-> rows]
NoneFrame == [none |-> TRUE, columns |-> {}, index |-> <<>>, rows |-> <<>>]
\* A table of the dashboard's session: None, or a sequence of records.
NoRecords == [none |-> TRUE, rows |-> <<>>]
Records(rows) == [none |-> FALSE, rows |-> rows]
\* A value not assigned yet.
Unset == [none |-> TRUE, columns |-> {"<unset>"}, index |-> <<>>, rows |-> <<>>]

\* DataFrame.empty: some axis has length 0.
Empty(f) == f.columns = {} \/ Len(f.rows) = 0

\* The positions of s that satisfy keep, in order.
RECURSIVE Positions(_, _)
Positions(n, keep) ==
    IF n = 0 THEN <<>>
    ELSE IF n \in keep THEN Append(Positions(n - 1, keep), n)
    ELSE Positions(n - 1, keep)

\* Boolean-mask row selection f[mask]: labels travel with the rows.
SelectRows(f, keep) ==
    LET ps == Positions(Len(f.rows), keep)
    IN  Frame(f.columns,
              [k \in DOMAIN ps |-> f.index[ps[k]]],
              [k \in DOMAIN ps |-> f.rows[ps[k]]])

\* Row reordering by a sequence of positions (take).
Take(f, ps) ==
    Frame(f.columns,
          [k \in DOMAIN ps |-> f.index[ps[k]]],
          [k \in DOMAIN ps |-> f.rows[ps[k]]])

\* Column selection f[names].
Project(f, names) ==
    Frame(Range(names), f.index,
          [k \in DOMAIN f.rows |-> [c \in Range(names) |-> f.rows[k][c]]])

\* A variant of head that returns the whole table.
head_no_cut(f, n) == f

\* DataFrame.head(n): the first n rows; for negative n all but the last -n.
head(f, n) ==
    LET len == Len(f.rows)
        k == IF n >= 0 THEN (IF n < len THEN n ELSE len)
             ELSE (IF len + n > 0 THEN len + n ELSE 0)
    IN  Frame(f.columns, SubSeq(f.index, 1, k), SubSeq(f.rows, 1, k))

\* ----------------------------------------------------------------- errors

NoError == [type |-> "none", names |-> <<>>]
\* ValueError(f"training_catalog.csv missing: {miss}")
MissingColumnsError(miss) == [type |-> "ValueError", names |-> miss]
\* KeyError: 'column'
KeyError(column) == [type |-> "KeyError", names |-> <<column>>]
\* ValueError: could not convert string to float
ConvertError == [type |-> "ValueError", names |-> <<>>]

\* ---------------------------------------------------------- build_signals

\* `history is not None and not history.empty`
HasHistory(h) == ~h.none /\ ~Empty(h)

\* history.groupby("Training Name").size()
taken_count(h, name) ==
    Cardinality({i \in DOMAIN h.rows : h.rows[i]["Training Name"] = name})

\* history[history["Status"].eq("Completed")].groupby("Training Name").size()
done_count(h, name) ==
    Cardinality({i \in DOMAIN h.rows :
                    /\ h.rows[i]["Training Name"] = name
                    /\ h.rows[i]["Status"] = "Completed"})

\* The index of sig: every Training Name of the history.
TrainingNames(h) == {h.rows[i]["Training Name"] : i \in DOMAIN h.rows}

\* sig["done"] / sig["taken"].replace(0, pd.NA), then fillna(0)
CompletionRateOf(h, name) ==
    LET tk == taken_count(h, name)
        raw == IF tk = 0 THEN NaN ELSE Num(done_count(h, name), tk)
    IN  IF IsNum(raw) THEN raw ELSE Num(0, 1)

\* A variant of PopularityOf that divides by the number of distinct courses.
popularity_per_course(h, name) ==
    Num(taken_count(h, name), Cardinality(TrainingNames(h)))

\* sig["taken"] / max(1, sig["taken"].sum())
PopularityOf(h, name) ==
    LET total == Len(h.rows)
    IN  Num(taken_count(h, name), IF total > 1 THEN total ELSE 1)

\* The columns the left merge with sig adds to one catalog row.
MergedSignals(h, course) ==
    IF course \in TrainingNames(h)
    THEN [taken |-> Num(taken_count(h, course), 1),
          done |-> Num(done_count(h, course), 1),
          CompletionRate |-> CompletionRateOf(h, course),
          Popularity |-> PopularityOf(h, course)]
    ELSE [taken |-> NaN, done |-> NaN, CompletionRate |-> NaN, Popularity |-> NaN]

\* Series.clip(lower=0) on one cell.
clip(c) == IF IsNum(c) /\ c.n < 0 THEN Num(0, c.d) ELSE c

\* Series.max(): the largest non-missing value, NaN when there is none.
SeriesMax(s) ==
    LET present == {i \in DOMAIN s : IsNum(s[i])}
    IN  IF present = {} THEN NaN
        ELSE s[CHOOSE i \in present : \A j \in present : Leq(s[j], s[i])]

\* A variant of CostEfficiencyOf that leaves out the "1 -".
cost_share(c, mx) ==
    IF IsNum(mx) /\ mx.n > 0
    THEN (IF IsNum(c) THEN Num(c.n * mx.d, c.d * mx.n) ELSE NaN)
    ELSE Num(0, 1)

\* 1 - (cost / cost.max()) if cost.max() > 0 else 0.0
CostEfficiencyOf(c, mx) ==
    IF IsNum(mx) /\ mx.n > 0
    THEN (IF IsNum(c) THEN Num(c.d * mx.n - c.n * mx.d, c.d * mx.n) ELSE NaN)
    ELSE Num(0, 1)

\* A variant of fillna that leaves the missing signals in place.
fillna_skipped(row) == row

\* DataFrame.fillna({"CompletionRate":0.0,"Popularity":0.0,"CostEfficiency":0.0})
fillna(row) ==
    [c \in DOMAIN row |->
        IF c \in {"CompletionRate", "Popularity", "CostEfficiency"} /\ ~IsNum(row[c])
        THEN Num(0, 1) ELSE row[c]]

\* A variant of CallerCatalog in which build_signals writes its columns to
\* the table it was given.
caller_catalog_written(ctl, frame) == IF frame = Unset THEN ctl ELSE frame

\* cat = catalog.copy(): the caller's table after build_signals has written
\* its columns to frame.
CallerCatalog(ctl, frame) == ctl

\* build_signals(catalog, history): [error, frame, steps], steps being the
\* statements executed before it returned or raised.
build_signals(ctl, h) ==
    IF HasHistory(h) /\ "Training Name" \notin h.columns
    THEN [error |-> KeyError("Training Name"), frame |-> Unset,
          steps |-> <<"copy">>]
    ELSE IF HasHistory(h) /\ "Status" \notin h.columns
    THEN [error |-> KeyError("Status"), frame |-> Unset,
          steps |-> <<"copy", "taken">>]
    ELSE
    LET withSig ==
            [k \in DOMAIN ctl.rows |->
                IF HasHistory(h)
                THEN MergedSignals(h, ctl.rows[k]["Course"]) @@ ctl.rows[k]
                ELSE [CompletionRate |-> Num(0, 1), Popularity |-> Num(0, 1)]
                     @@ ctl.rows[k]]
        sigSteps == IF HasHistory(h)
                    THEN <<"copy", "taken", "done", "sig", "merge">>
                    ELSE <<"copy", "zero_signals">>
        raw == [k \in DOMAIN ctl.rows |-> ctl.rows[k]["Cost_KWD"]]
    IN  IF \E k \in DOMAIN raw : raw[k].t = "str"
        THEN [error |-> ConvertError, frame |-> Unset, steps |-> sigSteps]
        ELSE
        LET cost == [k \in DOMAIN raw |-> clip(raw[k])]
            mx == SeriesMax(cost)
            rows == [k \in DOMAIN ctl.rows |->
                        fillna([CostEfficiency |-> CostEfficiencyOf(cost[k], mx)]
                               @@ withSig[k])]
        IN  [error |-> NoError,
             frame |-> Frame(ctl.columns
                               \cup {"CompletionRate", "Popularity", "CostEfficiency"}
                               \cup (IF HasHistory(h) THEN {"taken", "done"} ELSE {}),
                             ctl.index, rows),
             steps |-> sigSteps \o <<"cost", "fillna">>]

\* -------------------------------------------------------------- recommend

\* def recommend(emp_row, history, catalog, topn=8): the value of topn.
TopN(arg) == IF arg.given THEN arg.n ELSE TOPN_DEFAULT

\* A variant of miss that stops at the first missing column.
miss_first_only(ctl) ==
    LET absent == {i \in DOMAIN CAT_REQ : CAT_REQ[i] \notin ctl.columns}
    IN  IF absent = {} THEN <<>>
        ELSE <<CAT_REQ[CHOOSE i \in absent : \A j \in absent : i <= j]>>

\* miss = [c for c in CAT_REQ if c not in catalog.columns]
miss(ctl) ==
    LET absent == {i \in DOMAIN CAT_REQ : CAT_REQ[i] \notin ctl.columns}
        ps == Positions(Len(CAT_REQ), absent)
    IN  [k \in DOMAIN ps |-> CAT_REQ[ps[k]]]

\* A variant of taken that excludes only the courses the employee completed.
taken_completed_only(h) ==
    IF HasHistory(h)
    THEN {h.rows[i]["Training Name"] :
             i \in {j \in DOMAIN h.rows : h.rows[j]["Status"] = "Completed"}}
    ELSE {}

\* taken = set(history["Training Name"].unique()) if history is not None
\*         and not history.empty else set()
taken(h) == IF HasHistory(h) THEN TrainingNames(h) ELSE {}

\* A variant of match_boost that gives the Section boost only to rows of
\* another Department.
match_boost_exclusive(row, er) ==
    LET dept == str(get(er, "Department", Text("")))
        sect == str(get(er, "Section", Text("")))
    IN  Num(IF PdEq(row["Department"], dept) THEN BOOST_DEPT
            ELSE IF PdEq(row["Section"], sect) THEN BOOST_SECT ELSE 0, 100)

\* BOOST_DEPT*(df["Department"]==dept) + BOOST_SECT*(df["Section"]==sect)
match_boost(row, er) ==
    LET dept == str(get(er, "Department", Text("")))
        sect == str(get(er, "Section", Text("")))
    IN  Num(BOOST_DEPT * (IF PdEq(row["Department"], dept) THEN 1 ELSE 0)
            + BOOST_SECT * (IF PdEq(row["Section"], sect) THEN 1 ELSE 0), 100)

\* A variant of score with the weights of CostEfficiency and Popularity
\* exchanged.
score_weights_exchanged(row) ==
    LET cr == row["CompletionRate"]
        ce == row["CostEfficiency"]
        po == row["Popularity"]
        mb == row["match_boost"]
    IN  IF IsNum(cr) /\ IsNum(ce) /\ IsNum(po) /\ IsNum(mb)
        THEN Num(W_COMPLETION * cr.n * ce.d * po.d * mb.d
                 + W_POPULAR * ce.n * cr.d * po.d * mb.d
                 + W_COST_EFF * po.n * cr.d * ce.d * mb.d
                 + 100 * mb.n * cr.d * ce.d * po.d,
                 100 * cr.d * ce.d * po.d * mb.d)
        ELSE NaN

\* W_COMPLETION*CompletionRate + W_COST_EFF*CostEfficiency
\*   + W_POPULAR*Popularity + match_boost
score(row) ==
    LET cr == row["CompletionRate"]
        ce == row["CostEfficiency"]
        po == row["Popularity"]
        mb == row["match_boost"]
    IN  IF IsNum(cr) /\ IsNum(ce) /\ IsNum(po) /\ IsNum(mb)
        THEN Num(W_COMPLETION * cr.n * ce.d * po.d * mb.d
                 + W_COST_EFF * ce.n * cr.d * po.d * mb.d
                 + W_POPULAR * po.n * cr.d * ce.d * mb.d
                 + 100 * mb.n * cr.d * ce.d * po.d,
                 100 * cr.d * ce.d * po.d * mb.d)
        ELSE NaN

\* Lines 45-54: the rows not taken, with match_boost and score.
ScoredRows(sig, h, er) ==
    LET kept == SelectRows(sig, {k \in DOMAIN sig.rows :
                                    sig.rows[k]["Course"] \notin taken(h)})
        boosted == [k \in DOMAIN kept.rows |->
                       [match_boost |-> match_boost(kept.rows[k], er)]
                       @@ kept.rows[k]]
        scored == [k \in DOMAIN boosted |->
                      [score |-> score(boosted[k])] @@ boosted[k]]
    IN  Frame(kept.columns \cup {"match_boost", "score"}, kept.index, scored)

\* a sorts strictly before b under sort_values("score", ascending=False):
\* larger score first, missing scores last.
Before(a, b) ==
    \/ IsNum(a) /\ ~IsNum(b)
    \/ IsNum(a) /\ IsNum(b) /\ Less(b, a)

Perms(n) == {p \in [1..n -> 1..n] : \A i, j \in 1..n : i # j => p[i] # p[j]}

\* A variant of sort_values that sorts ascending.
sort_values_ascending(f) ==
    {p \in Perms(Len(f.rows)) :
        \A i, j \in DOMAIN f.rows :
            i < j => ~Before(f.rows[p[i]]["score"], f.rows[p[j]]["score"])}

\* The row orders sort_values("score", ascending=False) may produce: the
\* default kind is quicksort, which promises nothing about equal scores.
sort_values(f) ==
    {p \in Perms(Len(f.rows)) :
        \A i, j \in DOMAIN f.rows :
            i < j => ~Before(f.rows[p[j]]["score"], f.rows[p[i]]["score"])}

\* ------------------------------------------------------------------ inputs

\* Employee rows: text department and section, a numeric department code,
\* a row without a Section field.
Employees ==
    {[Department |-> Text("HR"), Section |-> Text("Ops")],
     [Department |-> Text("HR"), Section |-> Text("Fin")],
     [Department |-> IntCell("7")]}

HROps == <<Text("HR"), Text("Ops")>>
SevenFin == <<IntCell("7"), Text("Fin")>>

CatalogRow(course, org, cost) ==
    [Course |-> course, Provider |-> "P", Department |-> org[1],
     Section |-> org[2], Level |-> "L", Hours |-> 8, Cost_KWD |-> cost,
     Skills |-> "S"]

\* Two courses, two organisational units, costs 0, 1, 2, a negative cost,
\* a missing cost and a cost that is no number.
CatalogRows ==
    {CatalogRow("A", HROps, Num(2, 1)),
     CatalogRow("A", SevenFin, Num(0, 1)),
     CatalogRow("B", HROps, Num(0, 1)),
     CatalogRow("B", SevenFin, Num(1, 1)),
     CatalogRow("B", HROps, Num(-1, 1)),
     CatalogRow("B", SevenFin, NaN),
     CatalogRow("A", HROps, TextCost)}

SeqsUpTo(S, n) == UNION {[1..k -> S] : k \in 0..n}

RangeIndex(n) == [k \in 1..n |-> k - 1]

\* The row restricted to the columns in names.
Restrict(row, names) == [c \in DOMAIN row \cap names |-> row[c]]

\* Catalogs with every required column.
CatalogsComplete ==
    {Frame(Range(CAT_REQ), RangeIndex(Len(rows)), rows) :
        rows \in SeqsUpTo(CatalogRows, MaxCat)}

\* Catalogs of at most one row that lack one or two required columns.
CatalogsLacking ==
    {Frame(keep, RangeIndex(Len(rows)),
           [k \in DOMAIN rows |-> Restrict(rows[k], keep)]) :
        rows \in SeqsUpTo(CatalogRows, 1),
        keep \in {Range(CAT_REQ) \ {"Skills"},
                  Range(CAT_REQ) \ {"Course", "Cost_KWD"}}}

Catalogs == CatalogsComplete \cup CatalogsLacking

HistoryRow(name, status) == ("Training Name" :> name) @@ ("Status" :> status)

HistoryRows ==
    {HistoryRow("A", "Completed"), HistoryRow("A", "In Progress"),
     HistoryRow("Z", "Completed")}

\* r sorts no later than q in the enumeration of history rows (the order of
\* the rows of a history enters no operation on it).
RowLeq(r, q) ==
    \/ r["Training Name"] # q["Training Name"] /\ r["Training Name"] = "A"
    \/ r["Training Name"] = q["Training Name"]
         /\ (r["Status"] = q["Status"] \/ r["Status"] = "Completed")

\* Well-formed histories (both required columns), None, and pd.DataFrame().
HistoriesComplete ==
    {NoneFrame, Frame({}, <<>>, <<>>)}
      \cup {Frame({"Training Name", "Status"}, RangeIndex(Len(rows)), rows) :
                rows \in {r \in SeqsUpTo(HistoryRows, MaxHist) :
                            \A i, j \in DOMAIN r : i < j => RowLeq(r[i], r[j])}}

\* One-row histories that lack Training Name, Status or both.
HistoriesLacking ==
    {Frame({"Employee Code"} \cup keep, <<0>>,
           <<("Employee Code" :> "E1") @@ Restrict(HistoryRow("A", "Completed"), keep)>>) :
        keep \in {{"Training Name"}, {"Status"}, {}}}

Histories == HistoriesComplete \cup HistoriesLacking

\* The topn argument: an integer, or left out.
TopNs == {[given |-> TRUE, n |-> n] : n \in -1..MaxTopN}
           \cup {[given |-> FALSE, n |-> 0]}

\* ------------------------------------------------------------------ actions

\* The dashboard has computed nothing.
NoForm ==
    [submitted |-> FALSE, employee_id |-> "", employee_name |-> "",
     department |-> "", completion_date |-> 0, score |-> 0]

AppIdle ==
    /\ filtered_df = <<>>
    /\ employee_metrics = <<>>
    /\ training_data = NoRecords
    /\ form = NoForm
    /\ message = ""

\* The employee service has not been imported.
ServiceIdle ==
    /\ environ = <<>>
    /\ BACKEND = <<>>
    /\ supabase = <<>>
    /\ employees_sample = Unset
    /\ contacted = FALSE
    /\ listed = Unset

\* Catalog ingestion has not started.
IngestIdle ==
    /\ input_file = Unset
    /\ outdir = Unset
    /\ normal = Unset

\* The Predictive Analytics page has not been opened.
PredictiveIdle ==
    /\ MODEL_file = FALSE
    /\ DATA_file = Unset
    /\ pipe = "None"
    /\ exit_code = 0
    /\ shown = <<>>

\* The notifications page has not been opened.
NotifyIdle ==
    /\ notifications = <<>>
    /\ unread_count = 0
    /\ clicked = [button |-> "none", id |-> 0]
    /\ read_rate = NaN
    /\ clicks = <<>>

GeneratorIdle ==
    /\ training_df = <<>>
    /\ dept_stats = <<>>
    /\ ml_features = <<>>

ToolsIdle ==
    /\ ServiceIdle
    /\ IngestIdle
    /\ PredictiveIdle
    /\ NotifyIdle
    /\ GeneratorIdle

Init ==
    /\ emp_row \in Employees
    /\ history \in Histories
    /\ catalog \in Catalogs
    /\ topn \in TopNs
    /\ pc = "check"
    /\ cat = Unset
    /\ df = Unset
    /\ result = Unset
    /\ raised = NoError
    /\ trace = <<>>
    /\ emp = Unset
    /\ tr = Unset
    /\ sorter = <<>>
    /\ earlier = NoneFrame
    /\ AppIdle
    /\ ToolsIdle

\* recommend, lines 42-43.
CheckColumns ==
    /\ pc = "check"
    /\ IF miss(catalog) # <<>>
       THEN /\ raised' = MissingColumnsError(miss(catalog))
            /\ pc' = "raised"
       ELSE /\ raised' = raised
            /\ pc' = "build"
    /\ trace' = Append(trace, "check")
    /\ UNCHANGED <<emp_row, history, catalog, topn, cat, df, result>>
    /\ UNCHANGED <<page, calls, app, tools>>

\* recommend, line 44: cat = build_signals(catalog, history).
BuildSignals ==
    /\ pc = "build"
    /\ LET out == build_signals(catalog, history)
       IN  /\ trace' = trace \o out.steps
           /\ IF out.error # NoError
              THEN /\ raised' = out.error
                   /\ pc' = "raised"
                   /\ cat' = cat
              ELSE /\ raised' = raised
                   /\ pc' = "score"
                   /\ cat' = out.frame
           /\ catalog' = CallerCatalog(catalog, out.frame)
    /\ UNCHANGED <<emp_row, history, topn, df, result>>
    /\ UNCHANGED <<page, calls, app, tools>>

\* recommend, lines 45-54: filter out the taken courses, boost and score.
ScoreRows ==
    /\ pc = "score"
    /\ df' = ScoredRows(cat, history, emp_row)
    /\ pc' = "sort"
    /\ trace' = trace \o <<"filter", "boost", "score">>
    /\ UNCHANGED <<emp_row, history, catalog, topn, cat, result, raised>>
    /\ UNCHANGED <<page, calls, app, tools>>

\* recommend, lines 56-58: sort by score, project on cols, cut at topn.
SortHead ==
    /\ pc = "sort"
    /\ LET column == [k \in DOMAIN df.rows |-> df.rows[k]["score"]]
       IN  \E p \in sort_values(df) :
              /\ column \in DOMAIN sorter => p = sorter[column]
              /\ sorter' = (column :> p) @@ sorter
              /\ result' = head(Project(Take(df, p), cols), TopN(topn))
    /\ pc' = "returned"
    /\ trace' = trace \o <<"sort", "head">>
    /\ UNCHANGED <<emp_row, history, catalog, topn, cat, df, raised>>
    /\ UNCHANGED <<page, earlier, app, tools>>

Next ==
    \/ CheckColumns
    \/ BuildSignals
    \/ ScoreRows
    \/ SortHead

Spec == Init /\ [][Next]_vars

\* --------------------------------------------- the recommendations page

\* TypeError: load_catalog() takes 0 positional arguments but 1 was given
TypeError == [type |-> "TypeError", names |-> <<>>]

\* recommend(row, hist, load_catalog(cat), topn=6)
PAGE_TOPN == 6

EmployeeColumns == {"Employee Name", "Employee Code", "Department", "Section"}

EmployeeRow(name, code, org) ==
    ("Employee Name" :> name) @@ ("Employee Code" :> code)
      @@ [Department |-> org[1], Section |-> org[2]]

\* employees(): no file, two employees (one with a numeric code), and two
\* employees of the same name.
EmployeeTables ==
    {Frame(EmployeeColumns, <<>>, <<>>),
     Frame(EmployeeColumns, <<0, 1>>,
           <<EmployeeRow("Ann", Text("E1"), HROps),
             EmployeeRow("Bob", IntCell("2"), SevenFin)>>),
     Frame(EmployeeColumns, <<0, 1>>,
           <<EmployeeRow("Ann", IntCell("2"), SevenFin),
             EmployeeRow("Ann", Text("E1"), HROps)>>)}

TrainingRow(code, name, status) ==
    ("Employee Code" :> code) @@ HistoryRow(name, status)

TrainingRows ==
    {TrainingRow(Text("E1"), "A", "Completed"),
     TrainingRow(Text("E1"), "B", "In Progress"),
     TrainingRow(IntCell("2"), "A", "Completed"),
     TrainingRow(Text("2"), "B", "Completed")}

\* trainings(): the enrolments of every employee.
Trainings ==
    {Frame({"Employee Code", "Training Name", "Status"},
           RangeIndex(Len(rows)), rows) :
        rows \in SeqsUpTo(TrainingRows, MaxHist)}

\* training_catalog(): at most one course.
PageCatalogs == {c \in CatalogsComplete : Len(c.rows) <= 1}

\* emp.loc[emp["Employee Name"].eq(sel)].iloc[0]
FirstNamed(e, sel) ==
    e.rows[CHOOSE i \in DOMAIN e.rows :
              /\ e.rows[i]["Employee Name"] = sel
              /\ \A j \in DOMAIN e.rows :
                    e.rows[j]["Employee Name"] = sel => i <= j]

\* tr.loc[tr["Employee Code"].astype(str) == str(row["Employee Code"])]
\*   if not tr.empty else pd.DataFrame()
hist(t, row) ==
    IF ~Empty(t)
    THEN SelectRows(t, {i \in DOMAIN t.rows :
                          str(t.rows[i]["Employee Code"])
                            = str(row["Employee Code"])})
    ELSE Frame({}, <<>>, <<>>)

PageInit ==
    /\ emp \in EmployeeTables
    /\ tr \in Trainings
    /\ catalog \in PageCatalogs
    /\ topn = [given |-> TRUE, n |-> PAGE_TOPN]
    /\ pc = "page"
    /\ emp_row = Unset
    /\ history = Unset
    /\ cat = Unset
    /\ df = Unset
    /\ result = Unset
    /\ raised = NoError
    /\ trace = <<>>
    /\ sorter = <<>>
    /\ earlier = NoneFrame
    /\ AppIdle
    /\ ToolsIdle

\* Page, lines 14-20: stop when employees.csv or the catalog is missing.
PageLoad ==
    /\ pc = "page"
    /\ pc' = IF Empty(emp) \/ Empty(catalog) THEN "stopped" ELSE "select"
    /\ UNCHANGED <<emp_row, history, catalog, topn, cat, df, result, raised,
                   trace>>
    /\ UNCHANGED <<page, calls, app, tools>>

\* Page, lines 23-25: the selected employee's row and their own enrolments.
SelectEmployee ==
    /\ pc = "select"
    /\ \E sel \in {emp.rows[i]["Employee Name"] : i \in DOMAIN emp.rows} :
          /\ emp_row' = FirstNamed(emp, sel)
          /\ history' = hist(tr, FirstNamed(emp, sel))
    /\ pc' = "call"
    /\ UNCHANGED <<catalog, topn, cat, df, result, raised, trace>>
    /\ UNCHANGED <<page, calls, app, tools>>

\* Page, line 28: the arguments are evaluated before recommend is entered,
\* and load_catalog (recommender.py, line 4) takes no argument.
PageRecommend ==
    /\ pc = "call"
    /\ raised' = TypeError
    /\ pc' = "raised"
    /\ UNCHANGED <<emp_row, history, catalog, topn, cat, df, result, trace>>
    /\ UNCHANGED <<page, calls, app, tools>>

PageNext ==
    \/ PageLoad
    \/ SelectEmployee
    \/ PageRecommend

PageSpec == PageInit /\ [][PageNext]_vars

\* ----------------------------------------------- recommend, called again

\* The arguments of the call in progress.
Arguments == <<emp_row, history, catalog, topn>>

\* Two free courses of different units: equal scores for an employee of
\* neither unit.
RepeatRows ==
    {CatalogRow("A", SevenFin, Num(0, 1)), CatalogRow("B", HROps, Num(0, 1))}

RepeatCatalogs ==
    {c \in CatalogsComplete : \A k \in DOMAIN c.rows : c.rows[k] \in RepeatRows}

RepeatHistories ==
    {NoneFrame,
     Frame({"Training Name", "Status"}, <<0>>, <<HistoryRow("A", "Completed")>>)}

RepeatEmployees ==
    {[Department |-> Text("HR"), Section |-> Text("Ops")],
     [Department |-> IntCell("7")]}

RepeatTopNs == {[given |-> TRUE, n |-> MaxTopN], [given |-> FALSE, n |-> 0]}

RepeatInit ==
    /\ emp_row \in RepeatEmployees
    /\ history \in RepeatHistories
    /\ catalog \in RepeatCatalogs
    /\ topn \in RepeatTopNs
    /\ pc = "check"
    /\ cat = Unset
    /\ df = Unset
    /\ result = Unset
    /\ raised = NoError
    /\ trace = <<>>
    /\ emp = Unset
    /\ tr = Unset
    /\ sorter = <<>>
    /\ earlier = NoneFrame
    /\ AppIdle
    /\ ToolsIdle

\* The caller, after one call of recommend has returned or raised, calls it
\* again with the tables it holds, for any employee and any N.
CallAgain ==
    /\ pc \in {"returned", "raised"}
    /\ earlier' \in
          IF earlier = NoneFrame
          THEN {earlier,
                [args |-> Arguments, result |-> result, raised |-> raised]}
          ELSE {earlier}
    /\ emp_row' \in RepeatEmployees
    /\ topn' \in RepeatTopNs
    /\ pc' = "check"
    /\ cat' = Unset
    /\ df' = Unset
    /\ result' = Unset
    /\ raised' = NoError
    /\ trace' = <<>>
    /\ UNCHANGED <<history, catalog>>
    /\ UNCHANGED <<page, sorter, app, tools>>

RepeatNext ==
    \/ CheckColumns
    \/ BuildSignals
    \/ ScoreRows
    \/ SortHead
    \/ CallAgain

RepeatSpec == RepeatInit /\ [][RepeatNext]_vars

\* ------------------------------------- the dashboard: perform_clustering

\* Largest number of training records in a table.
MaxRec == 3

\* KMeans(n_clusters=3, ...)
N_CLUSTERS == 3

\* The recommender and its page are not running.
RecommenderIdle ==
    /\ emp_row = Unset
    /\ history = Unset
    /\ catalog = Unset
    /\ topn = [given |-> FALSE, n |-> 0]
    /\ cat = Unset
    /\ df = Unset
    /\ result = Unset
    /\ trace = <<>>
    /\ emp = Unset
    /\ tr = Unset
    /\ sorter = <<>>
    /\ earlier = NoneFrame

recommender ==
    <<emp_row, history, catalog, topn, cat, df, result, trace, page, calls>>

\* One training record (generate_sample_data, lines 90-98; the form of tab4).
TrainingRecord(id, name, dept, day, sc, st) ==
    [employee_id |-> id, employee_name |-> name, department |-> dept,
     training_course |-> "T", completion_date |-> day, score |-> sc,
     status |-> st]

\* Three employees; E1 once under another name and department, as
\* generate_sample_data draws a name and a department for every record
\* (lines 92-93); the last record has a status that its score does not
\* give, as an uploaded file may hold.
RecordPool ==
    {TrainingRecord("E1", "Ann", "HR", 1, 60, "Completed"),
     TrainingRecord("E1", "Ann", "HR", 1, 80, "Completed"),
     TrainingRecord("E2", "Bob", "IT", 1, 50, "In Progress"),
     TrainingRecord("E1", "Amy", "IT", 2, 50, "In Progress"),
     TrainingRecord("E3", "Cy", "HR", 2, 80, "Completed"),
     TrainingRecord("E2", "Bob", "IT", 1, 80, "In Progress")}

RecordTables == SeqsUpTo(RecordPool, MaxRec)

\* The texts of the pool in Python's string order.
Alphabetical == <<"Amy", "Ann", "Bob", "Cy", "E1", "E2", "E3", "HR", "IT">>

Rank(x) == CHOOSE i \in DOMAIN Alphabetical : Alphabetical[i] = x

\* Tuple order of the group keys.
KeyLeq(a, b) ==
    \/ Rank(a[1]) < Rank(b[1])
    \/ a[1] = b[1] /\ Rank(a[2]) < Rank(b[2])
    \/ a[1] = b[1] /\ a[2] = b[2] /\ Rank(a[3]) <= Rank(b[3])

\* groupby sorts the group keys.
RECURSIVE SortKeys(_)
SortKeys(keys) ==
    IF keys = {} THEN <<>>
    ELSE LET least == CHOOSE k \in keys : \A j \in keys : KeyLeq(k, j)
         IN  <<least>> \o SortKeys(keys \ {least})

\* groupby(['employee_id', 'employee_name', 'department'])
GroupKey(r) == <<r.employee_id, r.employee_name, r.department>>

IsCompleted(r) == IF r.status = "Completed" THEN 1 ELSE 0

\* A variant of GroupFold that keeps the score of the first record of a
\* group in place of the sum.
group_fold_first_score(rows, n) ==
    LET firsts == {i \in 1..n :
                      \A j \in 1..n : GroupKey(rows[j]) = GroupKey(rows[i]) => i <= j}
    IN  [k \in {GroupKey(rows[i]) : i \in 1..n} |->
            LET f == CHOOSE i \in firsts : GroupKey(rows[i]) = k
                members == {i \in 1..n : GroupKey(rows[i]) = k}
            IN  [sum |-> rows[f].score * Cardinality(members),
                 count |-> Cardinality(members),
                 completed |-> Cardinality({i \in members :
                                              rows[i].status = "Completed"})]]

\* The running sum, count and completed count of every group after the
\* first n rows.
RECURSIVE GroupFold(_, _)
GroupFold(rows, n) ==
    IF n = 0 THEN <<>>
    ELSE LET acc == GroupFold(rows, n - 1)
             r == rows[n]
             k == GroupKey(r)
         IN  IF k \in DOMAIN acc
             THEN [acc EXCEPT ![k] = [sum |-> @.sum + r.score,
                                      count |-> @.count + 1,
                                      completed |-> @.completed + IsCompleted(r)]]
             ELSE (k :> [sum |-> r.score, count |-> 1,
                         completed |-> IsCompleted(r)]) @@ acc

\* df.groupby([...]).agg({'score': ['mean', 'count'],
\*                        'status': lambda x: (x == 'Completed').sum()})
\*   .reset_index(), with the columns renamed (lines 105-111).
groupby_agg(rows) ==
    LET acc == GroupFold(rows, Len(rows))
        keys == SortKeys(DOMAIN acc)
    IN  [i \in DOMAIN keys |->
            [employee_id |-> keys[i][1],
             employee_name |-> keys[i][2],
             department |-> keys[i][3],
             avg_score |-> Num(acc[keys[i]].sum, acc[keys[i]].count),
             total_trainings |-> acc[keys[i]].count,
             completed_trainings |-> acc[keys[i]].completed]]

\* ValueError of scikit-learn's input validation.
SklearnError(what) == [type |-> "ValueError", names |-> <<what>>]

\* Two rows of employee_metrics have the same features.
SameFeatures(a, b) ==
    /\ SameNum(a.avg_score, b.avg_score)
    /\ a.total_trainings = b.total_trainings
    /\ a.completed_trainings = b.completed_trainings

\* kmeans.fit_predict(features_scaled): the cluster indices it may give to
\* three rows or more.  Rows of equal features share a cluster, no cluster
\* is empty when three rows differ, and nothing ties an index to the scores
\* of its cluster.
fit_predict(metrics) ==
    {c \in [DOMAIN metrics -> 0..(N_CLUSTERS - 1)] :
        /\ \A i, j \in DOMAIN metrics :
              SameFeatures(metrics[i], metrics[j]) => c[i] = c[j]
        /\ (\E i, j, k \in DOMAIN metrics :
               /\ ~SameFeatures(metrics[i], metrics[j])
               /\ ~SameFeatures(metrics[i], metrics[k])
               /\ ~SameFeatures(metrics[j], metrics[k]))
           => \A g \in 0..(N_CLUSTERS - 1) : \E i \in DOMAIN metrics : c[i] = g}

\* cluster_labels = {0: 'High Performer', 1: 'Average Performer',
\*                   2: 'Needs Improvement'}
cluster_labels ==
    (0 :> "High Performer") @@ (1 :> "Average Performer")
      @@ (2 :> "Needs Improvement")

ClusterInit ==
    /\ filtered_df \in RecordTables
    /\ employee_metrics = <<>>
    /\ pc = "aggregate"
    /\ raised = NoError
    /\ training_data = NoRecords
    /\ form = NoForm
    /\ message = ""
    /\ RecommenderIdle
    /\ ToolsIdle

\* perform_clustering, lines 105-111.
Aggregate ==
    /\ pc = "aggregate"
    /\ employee_metrics' = groupby_agg(filtered_df)
    /\ pc' = "cluster"
    /\ UNCHANGED <<filtered_df, raised, session, recommender, tools>>

\* perform_clustering, lines 114-122: StandardScaler refuses a table
\* without rows, KMeans one with fewer rows than clusters.
Cluster ==
    /\ pc = "cluster"
    /\ IF Len(employee_metrics) = 0
       THEN /\ raised' = SklearnError("0 samples")
            /\ pc' = "raised"
            /\ UNCHANGED employee_metrics
       ELSE IF Len(employee_metrics) < N_CLUSTERS
       THEN /\ raised' = SklearnError("n_samples < n_clusters")
            /\ pc' = "raised"
            /\ UNCHANGED employee_metrics
       ELSE /\ \E c \in fit_predict(employee_metrics) :
                  employee_metrics' =
                      [i \in DOMAIN employee_metrics |->
                          [cluster |-> c[i]] @@ employee_metrics[i]]
            /\ pc' = "label"
            /\ UNCHANGED raised
    /\ UNCHANGED <<filtered_df, session, recommender, tools>>

\* perform_clustering, lines 125-128.
Label ==
    /\ pc = "label"
    /\ employee_metrics' =
          [i \in DOMAIN employee_metrics |->
              [performance_category |-> cluster_labels[employee_metrics[i].cluster]]
              @@ employee_metrics[i]]
    /\ pc' = "returned"
    /\ UNCHANGED <<filtered_df, raised, session, recommender, tools>>

ClusterNext ==
    \/ Aggregate
    \/ Cluster
    \/ Label

ClusterSpec == ClusterInit /\ [][ClusterNext]_vars

\* ------------------------------------------- the dashboard: one session

\* Largest number of records in an uploaded file.
MaxFile == 2

\* "Completed" if score >= 60 else "In Progress" (lines 97 and 392)
status_of(sc) == IF sc >= 60 THEN "Completed" ELSE "In Progress"

\* The records of the pool that generate_sample_data may draw: any name,
\* department, date and score, the status computed from the score.
GeneratedPool ==
    {TrainingRecord(r.employee_id, r.employee_name, r.department,
                    r.completion_date, r.score, status_of(r.score)) :
        r \in RecordPool}

\* generate_sample_data(): employees E1, E2, ... in turn, each with one
\* record or more (the code's 100 employees with up to 3 records, cut to
\* MaxFile records, which leaves room for the form's).
GeneratedTables ==
    {Records(t) :
        t \in {u \in SeqsUpTo(GeneratedPool, MaxFile) :
                 /\ Len(u) > 0
                 /\ u[1].employee_id = "E1"
                 /\ \A i \in 1..(Len(u) - 1) :
                       Rank(u[i + 1].employee_id) - Rank(u[i].employee_id)
                         \in {0, 1}}}

\* One record stands before another in a file sorted by employee, name and
\* score.
RecordBefore(a, b) ==
    \/ Rank(a.employee_id) < Rank(b.employee_id)
    \/ /\ a.employee_id = b.employee_id
       /\ Rank(a.employee_name) < Rank(b.employee_name)
    \/ /\ a.employee_id = b.employee_id
       /\ a.employee_name = b.employee_name
       /\ a.score < b.score

\* pd.read_csv(uploaded_file): any records, in such a file.
UploadFiles ==
    {Records(t) :
        t \in {u \in SeqsUpTo(RecordPool, MaxFile) \ {<<>>} :
                 \A i, j \in DOMAIN u : i < j => RecordBefore(u[i], u[j])}}

\* The sidebar: the data source chosen, the button and the uploader.
SidebarInputs ==
    {[data_source |-> "Generate Sample Data", button |-> b,
      uploaded_file |-> NoRecords] : b \in BOOLEAN}
      \cup {[data_source |-> "Upload CSV", button |-> FALSE,
             uploaded_file |-> f] : f \in UploadFiles \cup {NoRecords}}
      \cup {[data_source |-> "Use Session Data", button |-> FALSE,
             uploaded_file |-> NoRecords]}

\* The form of tab4: not submitted (the script sees none of its values),
\* or submitted with text inputs (possibly left empty), a date and a score
\* on either side of 60.
FormInputs ==
    {NoForm}
      \cup {[submitted |-> TRUE, employee_id |-> id, employee_name |-> name,
             department |-> "HR", completion_date |-> 1, score |-> sc] :
               id \in {"", "E3"}, name \in {"", "Cy"}, sc \in {59, 60}}

\* The rows of a table of records that satisfy keep.
SelectRecords(rows, keep) ==
    LET ps == Positions(Len(rows), keep)
    IN  [k \in DOMAIN ps |-> rows[ps[k]]]

\* The filter widgets: a department or "All", a date range (one date while
\* the range is being picked) and the statuses ticked.
FilterInputs(rows) ==
    LET days == {rows[i].completion_date : i \in DOMAIN rows}
    IN  {[selected_dept |-> d, date_range |-> dr, status_filter |-> sf] :
            d \in {"All"} \cup {rows[i].department : i \in DOMAIN rows},
            dr \in {<<a, b>> : a, b \in days} \cup {<<a>> : a \in days},
            sf \in SUBSET {"Completed", "In Progress"}}

\* Lines 192-206.
apply_filters(rows, w) ==
    LET byDept == IF w.selected_dept # "All"
                  THEN SelectRecords(rows, {i \in DOMAIN rows :
                           rows[i].department = w.selected_dept})
                  ELSE rows
        byDate == IF Len(w.date_range) = 2
                  THEN SelectRecords(byDept, {i \in DOMAIN byDept :
                           /\ byDept[i].completion_date >= w.date_range[1]
                           /\ byDept[i].completion_date <= w.date_range[2]})
                  ELSE byDept
    IN  IF w.status_filter # {}
        THEN SelectRecords(byDate, {i \in DOMAIN byDate :
                 byDate[i].status \in w.status_filter})
        ELSE byDate

SessionInit ==
    /\ training_data = NoRecords
    /\ filtered_df = <<>>
    /\ employee_metrics = <<>>
    /\ form = NoForm
    /\ message = ""
    /\ pc = "sidebar"
    /\ raised = NoError
    /\ RecommenderIdle
    /\ ToolsIdle

\* main, lines 140-158: a run of the script starts; Generate Data and the
\* uploader replace the session's records, and a session without records
\* gets generated ones.
Sidebar ==
    /\ pc \in {"sidebar", "rendered", "raised"}
    /\ \E w \in SidebarInputs :
          LET chosen ==
                  IF w.data_source = "Generate Sample Data" /\ w.button
                  THEN GeneratedTables
                  ELSE IF w.data_source = "Upload CSV" /\ ~w.uploaded_file.none
                  THEN {w.uploaded_file}
                  ELSE IF training_data.none
                  THEN GeneratedTables
                  ELSE {training_data}
          IN  training_data' \in chosen
    /\ filtered_df' = <<>>
    /\ form' = NoForm
    /\ message' = ""
    /\ pc' = "filters"
    /\ raised' = NoError
    /\ UNCHANGED <<employee_metrics, recommender, tools>>

\* main, lines 160-206: the filters act on a copy of the session's records.
Filters ==
    /\ pc = "filters"
    /\ \E w \in FilterInputs(training_data.rows) :
          filtered_df' = apply_filters(training_data.rows, w)
    /\ pc' = "tab4"
    /\ UNCHANGED <<session, employee_metrics, raised, recommender, tools>>

\* The concatenation with the new record put first.
concat_in_front(t, record) == Records(<<record>> \o t.rows)

\* pd.concat([training_data, new_record], ignore_index=True)
concat(t, record) == Records(Append(t.rows, record))

\* main, lines 376-417 (tabs 1 to 3 only display): a submitted form with an
\* employee id and a name appends one record to the session's records
\* (tables are kept within MaxRec records).
AddRecordForm ==
    /\ pc = "tab4"
    /\ \E w \in FormInputs :
          /\ form' = w
          /\ IF ~w.submitted
             THEN /\ message' = ""
                  /\ UNCHANGED training_data
             ELSE IF w.employee_id # "" /\ w.employee_name # ""
             THEN /\ Len(training_data.rows) < MaxRec
                  /\ training_data' =
                      concat(training_data,
                          TrainingRecord(w.employee_id, w.employee_name,
                                         w.department, w.completion_date,
                                         w.score, status_of(w.score)))
                  /\ message' = "success: Training record added"
             ELSE /\ message' = "error: Please fill in all required fields!"
                  /\ UNCHANGED training_data
    /\ pc' = "tab5"
    /\ UNCHANGED <<filtered_df, employee_metrics, raised, recommender, tools>>

\* main, lines 419-423: perform_clustering(filtered_df) is called as it is;
\* what it raises ends the run.
MLInsights ==
    /\ pc = "tab5"
    /\ IF Len(groupby_agg(filtered_df)) = 0
       THEN raised' = SklearnError("0 samples") /\ pc' = "raised"
       ELSE IF Len(groupby_agg(filtered_df)) < N_CLUSTERS
       THEN raised' = SklearnError("n_samples < n_clusters") /\ pc' = "raised"
       ELSE raised' = raised /\ pc' = "rendered"
    /\ UNCHANGED <<session, filtered_df, employee_metrics, recommender, tools>>

SessionNext ==
    \/ Sidebar
    \/ Filters
    \/ AddRecordForm
    \/ MLInsights

SessionSpec == SessionInit /\ [][SessionNext]_vars

\* ------------------------------------------------- the employee service

\* A string of the environment whose characters matter, as its characters.
Chars_supabase == <<"s", "u", "p", "a", "b", "a", "s", "e">>
Chars_csv == <<"c", "s", "v">>

\* str.lower() leaving the characters as they are.
lower_kept(s) == s

\* str.lower(), character by character.
LowerCase ==
    [S |-> "s", U |-> "u", P |-> "p", A |-> "a", B |-> "b", E |-> "e",
     C |-> "c", V |-> "v"]

lower(s) ==
    [i \in DOMAIN s |->
        IF s[i] \in DOMAIN LowerCase THEN LowerCase[s[i]] ELSE s[i]]

\* os.environ.get(key, default)
environ_get(key, default) ==
    IF key \in DOMAIN environ THEN environ[key] ELSE default

\* One variable of the environment: absent, or set to one of the values.
Setting(key, values) == {<<>>} \cup {key :> v : v \in values}

\* The values of DATA_BACKEND: the remote store in three spellings, the
\* local file in two, the empty string and a store that does not exist.
Switches ==
    {Chars_supabase,
     <<"S", "U", "P", "A", "B", "A", "S", "E">>,
     <<"S", "u", "p", "a", "b", "a", "s", "e">>,
     Chars_csv,
     <<"C", "S", "V">>,
     <<>>,
     <<"s", "u", "p", "a">>}

Environments ==
    {a @@ b @@ c @@ d :
        a \in Setting("DATA_BACKEND", Switches),
        b \in Setting("SUPABASE_URL", {"", "https://x"}),
        c \in Setting("SUPABASE_ANON_KEY", {"", "k"}),
        d \in Setting("SUPABASE_EMP_TABLE", {"staff"})}

RemoteRows ==
    <<EmployeeRow("Ann", Text("E1"), HROps),
      EmployeeRow("Dee", Text("E4"), SevenFin)>>

\* The remote store: whether it answers, and the rows of its two tables
\* (res.data is a list, possibly empty, or None).
Stores ==
    [status : {"up", "unreachable", "query error"},
     employees : {NoRecords, Records(<<>>), Records(RemoteRows)},
     staff : {Records(<<>>), Records(SubSeq(RemoteRows, 2, 2))}]

\* data/employees_sample.csv, as pd.read_csv gives it.
SampleFiles ==
    {Frame(EmployeeColumns, <<0>>,
           <<EmployeeRow("Bob", IntCell("2"), SevenFin)>>),
     Frame(EmployeeColumns, <<0, 1>>,
           <<EmployeeRow("Ann", Text("E1"), HROps),
             EmployeeRow("Bob", IntCell("2"), SevenFin)>>)}

RuntimeError == [type |-> "RuntimeError", names |-> <<>>]
ConnectError == [type |-> "ConnectError", names |-> <<>>]
APIError == [type |-> "APIError", names |-> <<>>]

\* pd.DataFrame(res.data or [])
DataFrameOf(data) ==
    IF data.none \/ Len(data.rows) = 0
    THEN Frame({}, <<>>, <<>>)
    ELSE Frame(EmployeeColumns, RangeIndex(Len(data.rows)), data.rows)

\* _client(): the credentials, None and "" alike missing.
CredentialsMissing ==
    \/ environ_get("SUPABASE_URL", "") = ""
    \/ environ_get("SUPABASE_ANON_KEY", "") = ""

\* load_employees_supabase(): the error it raises, the table it returns
\* and whether it has sent the query.
load_employees_supabase ==
    LET table == environ_get("SUPABASE_EMP_TABLE", "employees")
    IN  IF CredentialsMissing
        THEN [raised |-> RuntimeError, df |-> Unset, sent |-> FALSE]
        ELSE IF supabase.status = "unreachable"
        THEN [raised |-> ConnectError, df |-> Unset, sent |-> TRUE]
        ELSE IF supabase.status = "query error"
        THEN [raised |-> APIError, df |-> Unset, sent |-> TRUE]
        ELSE [raised |-> NoError, df |-> DataFrameOf(supabase[table]),
              sent |-> TRUE]

\* load_employees_csv()
load_employees_csv == employees_sample

\* The import of services/employees.py has not run; the client library of
\* the remote store is installed.
ServiceInit ==
    /\ environ \in Environments
    /\ BACKEND = <<>>
    /\ supabase \in Stores
    /\ employees_sample \in SampleFiles
    /\ contacted = FALSE
    /\ listed = Unset
    /\ pc = "import"
    /\ raised = NoError
    /\ RecommenderIdle
    /\ AppIdle
    /\ IngestIdle
    /\ PredictiveIdle
    /\ NotifyIdle
    /\ GeneratorIdle

\* BACKEND = os.environ.get("DATA_BACKEND", "csv").lower()
ImportService ==
    /\ pc = "import"
    /\ BACKEND' = lower(environ_get("DATA_BACKEND", Chars_csv))
    /\ pc' = "call"
    /\ UNCHANGED <<environ, supabase, employees_sample, contacted, listed>>
    /\ UNCHANGED <<raised, beside_service>>

\* list_employees() on the local backend.
ListLocal ==
    /\ pc = "call"
    /\ BACKEND # Chars_supabase
    /\ listed' = load_employees_csv
    /\ pc' = "returned"
    /\ UNCHANGED <<environ, BACKEND, supabase, employees_sample, contacted>>
    /\ UNCHANGED <<raised, beside_service>>

\* list_employees with the try block's handler taken away: the error of
\* the remote load reaches the caller.
list_remote_unguarded ==
    /\ pc = "call"
    /\ BACKEND = Chars_supabase
    /\ LET got == load_employees_supabase
       IN  /\ contacted' = got.sent
           /\ IF got.raised # NoError
              THEN /\ raised' = got.raised
                   /\ pc' = "raised"
                   /\ UNCHANGED listed
              ELSE /\ listed' = IF Empty(got.df) THEN load_employees_csv
                                ELSE got.df
                   /\ pc' = "returned"
                   /\ UNCHANGED raised
    /\ UNCHANGED <<environ, BACKEND, supabase, employees_sample>>
    /\ UNCHANGED beside_service

\* list_employees() on the remote backend: the try block and its handler.
ListRemote ==
    /\ pc = "call"
    /\ BACKEND = Chars_supabase
    /\ LET got == load_employees_supabase
       IN  /\ contacted' = got.sent
           /\ listed' = IF got.raised # NoError THEN load_employees_csv
                        ELSE IF Empty(got.df) THEN load_employees_csv
                        ELSE got.df
    /\ pc' = "returned"
    /\ UNCHANGED <<environ, BACKEND, supabase, employees_sample>>
    /\ UNCHANGED <<raised, beside_service>>

ServiceNext ==
    \/ ImportService
    \/ ListLocal
    \/ ListRemote

ServiceSpec == ServiceInit /\ [][ServiceNext]_vars

\* ----------------------------------------------------- catalog ingestion

\* A table of ingest_catalog: the column labels in order (pandas allows a
\* label to occur twice) and the rows, one cell per column position.
Sheet(columns, rows) == [none |-> FALSE, columns |-> columns, rows |-> rows]

REQ ==
    <<"Course", "Provider", "Department", "Section", "Level", "Hours",
      "Cost_KWD", "Skills">>

\* normalize, line 14-16
mapping ==
    ("Course Name" :> "Course") @@ ("Title" :> "Course")
      @@ ("Provider Name" :> "Provider")
      @@ ("Dept" :> "Department") @@ ("Dept." :> "Department")
      @@ ("Sec" :> "Section") @@ ("Duration" :> "Hours")
      @@ ("Cost (KWD)" :> "Cost_KWD") @@ ("Cost" :> "Cost_KWD")

\* A cell holding the decimal digits of n as text ("120").
Digits(n) == [t |-> "digits", n |-> n, d |-> 1]

\* pd.to_numeric(x, errors="coerce") on one cell.
to_numeric(c) ==
    IF c.t = "num" THEN c
    ELSE IF c.t = "digits" THEN Num(c.n, 1)
    ELSE NaN

\* Series.fillna(value) on one cell.
fillna_cell(c, value) == IF c.t = "nan" THEN value ELSE c

\* str.title() on the texts of the Level column.
TitleCase ==
    [advanced |-> "Advanced", nan |-> "Nan", Advanced |-> "Advanced",
     Nan |-> "Nan"] @@ ("2" :> "2")

title(c) == Text(TitleCase[c.v])

\* str.replace(",", ";") on the texts of the Skills column.
CommaToSemicolon ==
    ("sql,excel" :> "sql;excel") @@ ("sql;excel" :> "sql;excel")
      @@ ("" :> "")

replace_comma(c) == Text(CommaToSemicolon[c.v])

\* The positions of the columns of t labelled c, in order.
ColumnsNamed(t, c) ==
    Positions(Len(t.columns), {k \in 1..Len(t.columns) : t.columns[k] = c})

\* df.rename(columns={k: v for k, v in mapping.items() if k in df.columns})
rename(t) ==
    Sheet([k \in DOMAIN t.columns |->
              IF t.columns[k] \in DOMAIN mapping THEN mapping[t.columns[k]]
              ELSE t.columns[k]],
          t.rows)

\* A variant of the check that reports the first absent column only.
normalize_miss_first(t) ==
    LET ps == Positions(Len(REQ), {k \in 1..Len(REQ) :
                                      REQ[k] \notin Range(t.columns)})
    IN  IF ps = <<>> THEN <<>> ELSE <<REQ[ps[1]]>>

\* miss = [c for c in REQ if c not in df.columns]
normalize_miss(t) ==
    LET ps == Positions(Len(REQ), {k \in 1..Len(REQ) :
                                      REQ[k] \notin Range(t.columns)})
    IN  [k \in DOMAIN ps |-> REQ[ps[k]]]

\* sys.exit(f"Missing columns: {miss} | Present: {list(df.columns)}")
SystemExit(names) == [type |-> "SystemExit", names |-> names]
\* pd.to_numeric(DataFrame): arg must be a list, tuple, 1-d array, or Series
ToNumericError == [type |-> "TypeError", names |-> <<"to_numeric">>]
\* 'DataFrame' object has no attribute 'str'
AttributeError == [type |-> "AttributeError", names |-> <<"str">>]

\* df[c] = f(df[c]) for a label that occurs once: f on every cell of it.
Assign(t, c, f(_)) ==
    Sheet(t.columns,
          [r \in DOMAIN t.rows |->
              [k \in DOMAIN t.columns |->
                  IF t.columns[k] = c THEN f(t.rows[r][k])
                  ELSE t.rows[r][k]]])

hours_cost(c) == fillna_cell(to_numeric(c), Num(0, 1))
level(c) == title(str(c))
skills(c) == replace_comma(str(fillna_cell(c, Text(""))))

\* df[c] is a Series only when the label c occurs once.
Twice(t, c) == Len(ColumnsNamed(t, c)) > 1

\* Lines 20-23: the error raised, or the table with the four columns
\* coerced.
coerce(t) ==
    IF Twice(t, "Hours") \/ Twice(t, "Cost_KWD")
    THEN [raised |-> ToNumericError, df |-> t]
    ELSE IF Twice(t, "Level") \/ Twice(t, "Skills")
    THEN [raised |-> AttributeError, df |-> t]
    ELSE [raised |-> NoError,
          df |-> Assign(Assign(Assign(Assign(t, "Hours", hours_cost),
                                      "Cost_KWD", hours_cost),
                               "Level", level),
                        "Skills", skills)]

\* df[REQ]: for each label of REQ in turn, every column that carries it.
RECURSIVE Selected(_, _)
Selected(t, n) ==
    IF n = 0 THEN <<>>
    ELSE Selected(t, n - 1) \o ColumnsNamed(t, REQ[n])

select_req(t) ==
    LET ps == Selected(t, Len(REQ))
    IN  Sheet([k \in DOMAIN ps |-> t.columns[ps[k]]],
              [r \in DOMAIN t.rows |->
                  [k \in DOMAIN ps |-> t.rows[r][ps[k]]]])

\* normalize(df): what it raises and what it returns.
normalize(t) ==
    LET renamed == rename(t)
        coerced == coerce(renamed)
    IN  IF normalize_miss(renamed) # <<>>
        THEN [raised |-> SystemExit(normalize_miss(renamed)), df |-> Unset]
        ELSE IF coerced.raised # NoError
        THEN [raised |-> coerced.raised, df |-> Unset]
        ELSE [raised |-> NoError, df |-> select_req(coerced.df)]

\* The headers of an input file: for each kind of column, the headers
\* that carry it.
HeaderChoices ==
    [Course : {<<"Course">>, <<"Title", "Course Name">>, <<>>},
     Provider : {<<"Provider Name">>},
     Department : {<<"Department">>, <<"Dept.">>},
     Section : {<<"Sec">>},
     Level : {<<"Level">>, <<>>},
     Hours : {<<"Hours">>, <<"Duration">>},
     Cost_KWD : {<<"Cost_KWD">>, <<"Cost (KWD)">>, <<"Cost", "Cost_KWD">>},
     Skills : {<<"Skills">>},
     Notes : {<<"Notes">>, <<>>}]

\* The headers in the order of REQ, or the other way round.
RECURSIVE Reverse(_)
Reverse(s) == IF s = <<>> THEN <<>> ELSE Reverse(Tail(s)) \o <<Head(s)>>

Headers ==
    UNION {LET labels == h.Notes \o h.Course \o h.Provider \o h.Department
                         \o h.Section \o h.Level \o h.Hours \o h.Cost_KWD
                         \o h.Skills
           IN  {labels, Reverse(labels)} : h \in HeaderChoices}

\* The column of REQ that a header stands for.
Kind(header) ==
    IF header \in DOMAIN mapping THEN mapping[header] ELSE header

\* The cells of one catalog entry, by kind of column.
Entries ==
    {[Hours |-> Num(8, 1), Cost_KWD |-> Num(120, 1),
      Level |-> Text("advanced"), Skills |-> Text("sql,excel")],
     [Hours |-> TextCost, Cost_KWD |-> TextCost,
      Level |-> NaN, Skills |-> NaN],
     [Hours |-> NaN, Cost_KWD |-> Digits(120),
      Level |-> Text("Advanced"), Skills |-> Text("sql;excel")],
     [Hours |-> Digits(8), Cost_KWD |-> NaN,
      Level |-> IntCell("2"), Skills |-> Text("")]}

EntryRow(labels, e) ==
    [k \in DOMAIN labels |->
        IF Kind(labels[k]) \in DOMAIN e THEN e[Kind(labels[k])]
        ELSE Text(labels[k])]

\* load_any(path): the tables that an input file can hold.
InputFiles ==
    {Sheet(labels, [r \in DOMAIN es |-> EntryRow(labels, es[r])]) :
        labels \in Headers, es \in SeqsUpTo(Entries, MaxRows)}

\* The output directory: whether it exists, and training_catalog.csv in it.
Outdir(exists, file) == [exists |-> exists, training_catalog |-> file]

IngestInit ==
    /\ input_file \in InputFiles
    /\ outdir \in {Outdir(e, Unset) : e \in BOOLEAN}
    /\ normal = Unset
    /\ pc = "mkdir"
    /\ raised = NoError
    /\ RecommenderIdle
    /\ AppIdle
    /\ ServiceIdle
    /\ PredictiveIdle
    /\ NotifyIdle
    /\ GeneratorIdle

\* outdir.mkdir(parents=True, exist_ok=True)
MakeOutdir ==
    /\ pc = "mkdir"
    /\ outdir' = Outdir(TRUE, outdir.training_catalog)
    /\ pc' = "load"
    /\ UNCHANGED <<input_file, normal, raised, beside_ingest>>

\* load_any(Path(a.input)); df = df.copy()
LoadAny ==
    /\ pc = "load"
    /\ normal' = input_file
    /\ pc' = "rename"
    /\ UNCHANGED <<input_file, outdir, raised, beside_ingest>>

\* Line 17.
Rename ==
    /\ pc = "rename"
    /\ normal' = rename(normal)
    /\ pc' = "required"
    /\ UNCHANGED <<input_file, outdir, raised, beside_ingest>>

\* Lines 18-19.
CheckRequired ==
    /\ pc = "required"
    /\ IF normalize_miss(normal) # <<>>
       THEN /\ raised' = SystemExit(normalize_miss(normal))
            /\ pc' = "exited"
       ELSE /\ pc' = "coerce"
            /\ UNCHANGED raised
    /\ UNCHANGED <<input_file, outdir, normal, beside_ingest>>

\* Lines 20-23.
Coerce ==
    /\ pc = "coerce"
    /\ LET out == coerce(normal)
       IN  IF out.raised # NoError
           THEN /\ raised' = out.raised
                /\ pc' = "raised"
                /\ UNCHANGED normal
           ELSE /\ normal' = out.df
                /\ pc' = "select"
                /\ UNCHANGED raised
    /\ UNCHANGED <<input_file, outdir, beside_ingest>>

\* Line 24: return df[REQ]
SelectRequired ==
    /\ pc = "select"
    /\ normal' = select_req(normal)
    /\ pc' = "write"
    /\ UNCHANGED <<input_file, outdir, raised, beside_ingest>>

\* df.to_csv(out, index=False, encoding="utf-8")
WriteCsv ==
    /\ pc = "write"
    /\ outdir' = Outdir(outdir.exists, normal)
    /\ pc' = "written"
    /\ UNCHANGED <<input_file, normal, raised, beside_ingest>>

IngestNext ==
    \/ MakeOutdir
    \/ LoadAny
    \/ Rename
    \/ CheckRequired
    \/ Coerce
    \/ SelectRequired
    \/ WriteCsv

IngestSpec == IngestInit /\ [][IngestNext]_vars

\* ------------------------------------- the Predictive Analytics page

\* train_test_split(X, y, test_size=0.2, ...): rows held out of n.
TEST_FIFTH == 5

\* data/training_records.csv: absent, or a table that has the needed
\* columns or not, with so many Completed rows and so many others.
NoData == [exists |-> FALSE, needed |-> FALSE, completed |-> 0, other |-> 0]
DataFiles ==
    {NoData}
      \cup [exists : {TRUE}, needed : BOOLEAN,
            completed : {0, 2, MaxClass}, other : {0, 1, MaxClass}]

\* train_test_split(..., stratify=y) raises ValueError when there is a
\* class with one member, or when the test part (a fifth, rounded up) or
\* the train part has fewer rows than there are classes.
SplitFails(d) ==
    LET n == d.completed + d.other
        classes == (IF d.completed > 0 THEN 1 ELSE 0)
                     + (IF d.other > 0 THEN 1 ELSE 0)
        n_test == (n + TEST_FIFTH - 1) \div TEST_FIFTH
    IN  \/ n = 0
        \/ d.completed = 1 \/ d.other = 1
        \/ n_test < classes
        \/ n - n_test < classes

\* train_models.py run as a script: its exit code and whether it has
\* written models/completion_rf.joblib.
train_models(d) ==
    IF ~d.exists THEN [code |-> 0, saved |-> FALSE]
    ELSE IF ~d.needed THEN [code |-> 1, saved |-> FALSE]
    ELSE IF SplitFails(d) THEN [code |-> 1, saved |-> FALSE]
    ELSE [code |-> 0, saved |-> TRUE]

PredictiveInit ==
    /\ MODEL_file \in BOOLEAN
    /\ DATA_file \in DataFiles
    /\ pipe = "None"
    /\ exit_code = 0
    /\ shown = <<>>
    /\ pc = "start"
    /\ raised = NoError
    /\ RecommenderIdle
    /\ AppIdle
    /\ ServiceIdle
    /\ IngestIdle
    /\ NotifyIdle
    /\ GeneratorIdle

\* Lines 27-30: the artifact exists.
LoadModel ==
    /\ pc = "start"
    /\ MODEL_file
    /\ pipe' = "loaded"
    /\ shown' = <<"success: Loaded trained completion model.">>
    /\ pc' = "inference"
    /\ UNCHANGED <<MODEL_file, DATA_file, exit_code, raised, beside_predictive>>

\* Lines 31-33: no artifact, but the data file exists.
StartTraining ==
    /\ pc = "start"
    /\ ~MODEL_file
    /\ DATA_file.exists
    /\ pipe' = "None"
    /\ shown' = <<"info: Model not found. Training">>
    /\ pc' = "training"
    /\ UNCHANGED <<MODEL_file, DATA_file, exit_code, raised, beside_predictive>>

\* Line 34: subprocess.call([sys.executable, "models/train_models.py"])
RunTrainer ==
    /\ pc = "training"
    /\ LET out == train_models(DATA_file)
       IN  /\ exit_code' = out.code
           /\ MODEL_file' = (MODEL_file \/ out.saved)
    /\ pc' = "trained"
    /\ UNCHANGED <<DATA_file, pipe, shown, raised, beside_predictive>>

\* The check after training with the artifact's existence left out.
after_training_by_code ==
    /\ pc = "trained"
    /\ IF exit_code = 0
       THEN /\ pipe' = IF MODEL_file THEN "loaded" ELSE "None"
            /\ shown' = Append(shown, "success: Model trained and loaded.")
            /\ pc' = "inference"
       ELSE /\ shown' = Append(shown, "error: Training failed.")
            /\ pc' = "stopped"
            /\ UNCHANGED pipe
    /\ UNCHANGED <<MODEL_file, DATA_file, exit_code, raised, beside_predictive>>

\* Lines 35-40.
AfterTraining ==
    /\ pc = "trained"
    /\ IF exit_code = 0 /\ MODEL_file
       THEN /\ pipe' = "loaded"
            /\ shown' = Append(shown, "success: Model trained and loaded.")
            /\ pc' = "inference"
       ELSE /\ shown' = Append(shown, "error: Training failed.")
            /\ pc' = "stopped"
            /\ UNCHANGED pipe
    /\ UNCHANGED <<MODEL_file, DATA_file, exit_code, raised, beside_predictive>>

\* Lines 41-43: neither artifact nor data.
NoModelNoData ==
    /\ pc = "start"
    /\ ~MODEL_file
    /\ ~DATA_file.exists
    /\ pipe' = "None"
    /\ shown' = <<"warning: No model and no training data available.">>
    /\ pc' = "stopped"
    /\ UNCHANGED <<MODEL_file, DATA_file, exit_code, raised, beside_predictive>>

\* Lines 46-63: the inference widgets; the button is pressed or not.
Inference ==
    /\ pc = "inference"
    /\ \E button \in BOOLEAN :
          IF button
          THEN IF pipe = "None"
               THEN /\ raised' = AttributeError
                    /\ pc' = "raised"
               ELSE /\ pc' = "predicted"
                    /\ UNCHANGED raised
          ELSE /\ pc' = "rendered"
               /\ UNCHANGED raised
    /\ UNCHANGED <<MODEL_file, DATA_file, pipe, exit_code, shown>>
    /\ UNCHANGED beside_predictive

\* The user's next interaction runs the script again from the top.
Rerun ==
    /\ pc \in {"stopped", "predicted", "rendered", "raised"}
    /\ pipe' = "None"
    /\ shown' = <<>>
    /\ raised' = NoError
    /\ pc' = "start"
    /\ UNCHANGED <<MODEL_file, DATA_file, exit_code, beside_predictive>>

\* Outside the page: the data file is put in place, replaced or removed
\* (also while the trainer is being started), the artifact is removed.
FilesChange ==
    /\ pc \in {"stopped", "predicted", "rendered", "training"}
    /\ \/ /\ DATA_file' \in DataFiles
          /\ UNCHANGED MODEL_file
       \/ /\ pc # "training"
          /\ MODEL_file' = FALSE
          /\ UNCHANGED DATA_file
    /\ UNCHANGED <<pipe, exit_code, shown, pc, raised, beside_predictive>>

PredictiveNext ==
    \/ LoadModel
    \/ StartTraining
    \/ RunTrainer
    \/ AfterTraining
    \/ NoModelNoData
    \/ Inference
    \/ Rerun
    \/ FilesChange

PredictiveSpec == PredictiveInit /\ [][PredictiveNext]_vars

\* ------------------------------------------------ the notifications page

Notification(id, type, read) == [id |-> id, type |-> type, read |-> read]

\* generate_sample_notifications(): ids 1 to 5, the third and the fifth
\* read, newest first.
generate_sample_notifications ==
    <<Notification(1, "deadline", FALSE),
      Notification(2, "achievement", FALSE),
      Notification(3, "reminder", TRUE),
      Notification(4, "alert", FALSE),
      Notification(5, "system", TRUE)>>

\* len([n for n in notifications if keep(n)])
RECURSIVE CountRead(_, _)
CountRead(ns, n) ==
    IF n = 0 THEN 0
    ELSE CountRead(ns, n - 1) + (IF ns[n].read THEN 1 ELSE 0)

\* The positions of the list that the status filter lets through (the
\* list is kept newest first, so the sort by timestamp leaves the order).
Filtered(ns, filter_read) ==
    Positions(Len(ns),
              {i \in DOMAIN ns :
                  \/ filter_read = "All"
                  \/ filter_read = "Unread" /\ ~ns[i].read
                  \/ filter_read = "Read" /\ ns[i].read})

\* A click: the button, and for a mark-as-read button the id in its key.
Click(button, id) == [button |-> button, id |-> id]

\* StreamlitDuplicateElementKey: two widgets with the key mark_read_<id>
DuplicateKeyError(id) == [type |-> "DuplicateElementKey", names |-> <<id>>]
ZeroDivisionError == [type |-> "ZeroDivisionError", names |-> <<>>]

\* Tab 1, the loop over the filtered notifications from the k-th on, with
\* the keys of the buttons rendered so far: it passes, a button has been
\* clicked (at a position of the list), or a key comes twice.
RECURSIVE RenderFrom(_, _, _, _, _)
RenderFrom(ns, ps, k, keys, click) ==
    IF k > Len(ps) THEN [what |-> "pass", at |-> 0]
    ELSE LET n == ns[ps[k]]
         IN  IF n.read THEN RenderFrom(ns, ps, k + 1, keys, click)
             ELSE IF n.id \in keys THEN [what |-> "duplicate", at |-> ps[k]]
             ELSE IF click = Click("mark_read", n.id) THEN [what |-> "click", at |-> ps[k]]
             ELSE RenderFrom(ns, ps, k + 1, keys \cup {n.id}, click)

\* What the user can click: a button of the page (none for a change of a
\* filter), or the mark-as-read button of an unread notification.
Clicks(ns) ==
    {Click(b, 0) : b \in {"none", "refresh", "save", "reminder", "budget",
                          "mark_all", "clear"}}
      \cup {Click("mark_read", ns[i].id) :
               i \in {j \in DOMAIN ns : ~ns[j].read}}

\* The id given to a new notification, and the one after the largest.
new_id(ns) == Len(ns) + 1

\* A new notification, put first.
insert_first(ns, type) ==
    <<Notification(new_id(ns), type, FALSE)>> \o ns

NotifyInit ==
    /\ notifications = <<>>
    /\ unread_count = 0
    /\ clicked = Click("none", 0)
    /\ read_rate = NaN
    /\ clicks = <<>>
    /\ pc = "top"
    /\ raised = NoError
    /\ RecommenderIdle
    /\ AppIdle
    /\ ServiceIdle
    /\ IngestIdle
    /\ PredictiveIdle
    /\ GeneratorIdle

\* The samples loaded on the first run only.
load_samples_once ==
    /\ pc = "top"
    /\ IF notifications = <<>> /\ clicks = <<>>
       THEN /\ notifications' = generate_sample_notifications
            /\ unread_count' =
                 Len(generate_sample_notifications)
                   - CountRead(generate_sample_notifications,
                               Len(generate_sample_notifications))
       ELSE UNCHANGED <<notifications, unread_count>>
    /\ pc' = "controls"
    /\ UNCHANGED <<clicked, read_rate, clicks, raised, beside_notify>>

\* Lines 104-106: an empty list is replaced by the samples.
LoadSamples ==
    /\ pc = "top"
    /\ IF notifications = <<>>
       THEN /\ notifications' = generate_sample_notifications
            /\ unread_count' =
                 Len(generate_sample_notifications)
                   - CountRead(generate_sample_notifications,
                               Len(generate_sample_notifications))
       ELSE UNCHANGED <<notifications, unread_count>>
    /\ pc' = "controls"
    /\ UNCHANGED <<clicked, read_rate, clicks, raised, beside_notify>>

\* Lines 149-152: Refresh Notifications.
Refresh ==
    /\ pc = "controls"
    /\ IF clicked.button = "refresh"
       THEN /\ notifications' = generate_sample_notifications
            /\ clicked' = Click("none", 0)
            /\ pc' = "top"
       ELSE /\ pc' = "tab1"
            /\ UNCHANGED <<notifications, clicked>>
    /\ UNCHANGED <<unread_count, read_rate, clicks, raised, beside_notify>>

\* Lines 154-217: the filters and the list of tab 1 with its mark-as-read
\* buttons (tabs 2 and 3 only display).
RenderList ==
    /\ pc = "tab1"
    /\ \E filter_read \in {"All", "Unread", "Read"} :
          LET out == RenderFrom(notifications,
                                Filtered(notifications, filter_read),
                                1, {}, clicked)
          IN  IF out.what = "duplicate"
              THEN /\ raised' = DuplicateKeyError(notifications[out.at].id)
                   /\ pc' = "raised"
                   /\ UNCHANGED <<notifications, clicked>>
              ELSE IF out.what = "click"
              THEN /\ notifications' =
                        [notifications EXCEPT ![out.at].read = TRUE]
                   /\ clicked' = Click("none", 0)
                   /\ pc' = "top"
                   /\ UNCHANGED raised
              ELSE /\ pc' = "simulate"
                   /\ UNCHANGED <<notifications, clicked, raised>>
    /\ UNCHANGED <<unread_count, read_rate, clicks, beside_notify>>

\* Lines 329-343: Training Reminder.
TrainingReminder ==
    /\ pc = "simulate"
    /\ clicked.button = "reminder"
    /\ notifications' = insert_first(notifications, "reminder")
    /\ clicked' = Click("none", 0)
    /\ pc' = "top"
    /\ UNCHANGED <<unread_count, read_rate, clicks, raised, beside_notify>>

\* Lines 345-359: Budget Alert.
BudgetAlert ==
    /\ pc = "simulate"
    /\ clicked.button = "budget"
    /\ notifications' = insert_first(notifications, "alert")
    /\ clicked' = Click("none", 0)
    /\ pc' = "top"
    /\ UNCHANGED <<unread_count, read_rate, clicks, raised, beside_notify>>

\* Lines 364-368: Mark All as Read.
MarkAllRead ==
    /\ pc = "simulate"
    /\ clicked.button = "mark_all"
    /\ notifications' =
         [i \in DOMAIN notifications |->
             [notifications[i] EXCEPT !.read = TRUE]]
    /\ clicked' = Click("none", 0)
    /\ pc' = "top"
    /\ UNCHANGED <<unread_count, read_rate, clicks, raised, beside_notify>>

\* Lines 370-373: Clear Read Notifications.
ClearRead ==
    /\ pc = "simulate"
    /\ clicked.button = "clear"
    /\ LET ps == Positions(Len(notifications),
                           {i \in DOMAIN notifications :
                               ~notifications[i].read})
       IN  notifications' = [k \in DOMAIN ps |-> notifications[ps[k]]]
    /\ clicked' = Click("none", 0)
    /\ pc' = "top"
    /\ UNCHANGED <<unread_count, read_rate, clicks, raised, beside_notify>>

\* Lines 390-391: read_rate = read / total * 100
read_rate_of(ns) ==
    IF Len(ns) = 0
    THEN [raised |-> ZeroDivisionError, rate |-> NaN]
    ELSE [raised |-> NoError,
          rate |-> Num(CountRead(ns, Len(ns)) * 100, Len(ns))]

\* Lines 376-399: no button of the simulation was clicked; the footer.
Footer ==
    /\ pc = "simulate"
    /\ clicked.button \notin {"reminder", "budget", "mark_all", "clear"}
    /\ LET out == read_rate_of(notifications)
       IN  /\ raised' = out.raised
           /\ read_rate' = out.rate
           /\ pc' = IF out.raised = NoError THEN "done" ELSE "raised"
    /\ UNCHANGED <<notifications, unread_count, clicked, clicks, beside_notify>>

\* The user clicks a button (or changes a filter): the script runs again.
Interact ==
    /\ pc \in {"done", "raised"}
    /\ Len(clicks) < MaxClicks
    /\ clicked' \in Clicks(notifications)
    /\ clicks' = Append(clicks, clicked'.button)
    /\ read_rate' = NaN
    /\ raised' = NoError
    /\ pc' = "top"
    /\ UNCHANGED <<notifications, unread_count, beside_notify>>

NotifyNext ==
    \/ LoadSamples
    \/ Refresh
    \/ RenderList
    \/ TrainingReminder
    \/ BudgetAlert
    \/ MarkAllRead
    \/ ClearRead
    \/ Footer
    \/ Interact

NotifySpec == NotifyInit /\ [][NotifyNext]_vars

\* -------------------------------------------------------- the data generator

\* The employees of generate_training_data (lines 73-77): one name and one
\* department for every employee, drawn before its records.
GeneratorNames == [E1 |-> "Ann", E2 |-> "Bob", E3 |-> "Cy"]

\* The records that generate_training_data may draw (lines 80-108): a
\* score, and the status that the score gives.
DrawnRecords ==
    {TrainingRecord(id, GeneratorNames[id], dept, 1, sc, status_of(sc)) :
        id \in DOMAIN GeneratorNames, dept \in {"HR", "IT"},
        sc \in {50, 60, 80}}

\* generate_training_data(): employees E1, E2, ... in turn, each in one
\* department with one record or more (the code's 100 employees with up
\* to 3 records each, cut to MaxRec records).
DrawnTables ==
    {t \in SeqsUpTo(DrawnRecords, MaxRec) :
        /\ Len(t) > 0
        /\ t[1].employee_id = "E1"
        /\ \A i \in 1..(Len(t) - 1) :
              /\ Rank(t[i + 1].employee_id) - Rank(t[i].employee_id) \in {0, 1}
              /\ t[i + 1].employee_id = t[i].employee_id
                    => t[i + 1].department = t[i].department}

\* Series.sum() of the cells at the positions of members.
RECURSIVE SumOver(_, _)
SumOver(cells, members) ==
    IF members = {} THEN 0
    ELSE LET i == CHOOSE j \in members : TRUE
         IN  cells[i] + SumOver(cells, members \ {i})

\* The score column, its squares, and (x == 'Completed') as 0 or 1.
Scores(rows) == [i \in DOMAIN rows |-> rows[i].score]
ScoresSquared(rows) == [i \in DOMAIN rows |-> rows[i].score * rows[i].score]
CompletedFlags(rows) == [i \in DOMAIN rows |-> IsCompleted(rows[i])]

\* Series.round(places) on a number that is not negative: the nearest
\* multiple of 10^-places, a tie going to the even one.
round(x, places) ==
    LET scale == IF places = 1 THEN 10 ELSE 100
        whole == (x.n * scale) \div x.d
        rest == (x.n * scale) % x.d
    IN  IF 2 * rest < x.d THEN Num(whole, scale)
        ELSE IF 2 * rest > x.d THEN Num(whole + 1, scale)
        ELSE IF whole % 2 = 0 THEN Num(whole, scale)
        ELSE Num(whole + 1, scale)

\* groupby sorts the departments.
RECURSIVE SortTexts(_)
SortTexts(texts) ==
    IF texts = {} THEN <<>>
    ELSE LET least == CHOOSE k \in texts : \A j \in texts : Rank(k) <= Rank(j)
         IN  <<least>> \o SortTexts(texts \ {least})

\* (stats['Completed_Count'] / stats['Total_Employees'] * 100).round(1)
Completion_Rate(completed, employees) ==
    round(Num(completed * 100, employees), 1)

\* calculate_department_stats(df): one row for every department, in the
\* order of the departments.
calculate_department_stats(rows) ==
    LET depts == SortTexts({rows[i].department : i \in DOMAIN rows})
    IN  [k \in DOMAIN depts |->
            LET members == {i \in DOMAIN rows : rows[i].department = depts[k]}
                scores == {rows[i].score : i \in members}
                employees == Cardinality({rows[i].employee_id : i \in members})
                completed == SumOver(CompletedFlags(rows), members)
            IN  [department |-> depts[k],
                 Total_Employees |-> employees,
                 Avg_Score |-> round(Num(SumOver(Scores(rows), members),
                                         Cardinality(members)), 2),
                 Min_Score |-> CHOOSE s \in scores : \A u \in scores : s <= u,
                 Max_Score |-> CHOOSE s \in scores : \A u \in scores : s >= u,
                 Completed_Count |-> completed,
                 Completion_Rate |-> Completion_Rate(completed, employees)]]

\* The 'std' of the scores of a group, held as its square (the sample
\* variance, an exact rational): NaN for a group of one record.
std_squared(rows, members) ==
    LET n == Cardinality(members)
        sum == SumOver(Scores(rows), members)
    IN  IF n < 2 THEN NaN
        ELSE Num(n * SumOver(ScoresSquared(rows), members) - sum * sum,
                 n * (n - 1))

\* generate_ml_features(df): one row for every group of employee_id,
\* employee_name and department, in the order of the keys; 'count' counts
\* the records of the group, every record having its training_course.
generate_ml_features(rows) ==
    LET keys == SortKeys({GroupKey(rows[i]) : i \in DOMAIN rows})
    IN  [k \in DOMAIN keys |->
            LET members == {i \in DOMAIN rows : GroupKey(rows[i]) = keys[k]}
                scores == {rows[i].score : i \in members}
                total == Cardinality(members)
                completed == SumOver(CompletedFlags(rows), members)
            IN  [employee_id |-> keys[k][1],
                 employee_name |-> keys[k][2],
                 department |-> keys[k][3],
                 avg_score |-> Num(SumOver(Scores(rows), members), total),
                 min_score |-> CHOOSE s \in scores : \A u \in scores : s <= u,
                 max_score |-> CHOOSE s \in scores : \A u \in scores : s >= u,
                 std_score |-> fillna_cell(std_squared(rows, members), Num(0, 1)),
                 total_trainings |-> total,
                 completed_trainings |-> completed,
                 completion_rate |-> round(Num(completed * 100, total), 1)]]

\* The script after training_df = generate_training_data(100) (line 151).
GeneratorInit ==
    /\ training_df \in DrawnTables
    /\ dept_stats = <<>>
    /\ ml_features = <<>>
    /\ pc = "stats"
    /\ raised = NoError
    /\ RecommenderIdle
    /\ AppIdle
    /\ ServiceIdle
    /\ IngestIdle
    /\ PredictiveIdle
    /\ NotifyIdle

\* dept_stats = calculate_department_stats(training_df) (line 154)
CalculateDepartmentStats ==
    /\ pc = "stats"
    /\ dept_stats' = calculate_department_stats(training_df)
    /\ pc' = "features"
    /\ UNCHANGED <<training_df, ml_features, raised, beside_generator>>

\* ml_features = generate_ml_features(training_df) (line 157)
GenerateMLFeatures ==
    /\ pc = "features"
    /\ ml_features' = generate_ml_features(training_df)
    /\ pc' = "save"
    /\ UNCHANGED <<training_df, dept_stats, raised, beside_generator>>

GeneratorNext ==
    \/ CalculateDepartmentStats
    \/ GenerateMLFeatures

GeneratorSpec == GeneratorInit /\ [][GeneratorNext]_vars

\* ------------------------------------------------------------- properties

Returned == pc = "returned"

\* The Training Names of the history passed to recommend.
HistoryCourses ==
    IF "Training Name" \in history.columns
    THEN {history.rows[i]["Training Name"] : i \in DOMAIN history.rows}
    ELSE {}

\* The positions of the scored rows that the returned table leaves out.
LeftOut == {k \in DOMAIN df.rows : df.index[k] \notin Range(result.index)}

\* The catalog positions whose course is not in the history.
Eligible ==
    {k \in DOMAIN catalog.rows : catalog.rows[k]["Course"] \notin HistoryCourses}

Min(a, b) == IF a < b THEN a ELSE b

\* x is a number of the interval [0, 1].
InUnit(x) == IsNum(x) /\ 0 <= x.n /\ x.n <= x.d

\* x is a number strictly between 0 and 1.
StrictlyInUnit(x) == IsNum(x) /\ 0 < x.n /\ x.n < x.d

\* C1: recommend never returns a row whose Course is a Training Name of the
\* history passed to it, whatever the Status of that history row.
C1_NoTakenCourseReturned ==
    Returned =>
        \A k \in DOMAIN result.rows : result.rows[k]["Course"] \notin HistoryCourses

\* A call returned rows although the catalog holds a course the history
\* names, and the history names a catalog course with a Status other than
\* Completed.
C1_Witness ==
    /\ Returned
    /\ Len(result.rows) > 0
    /\ \E i \in DOMAIN history.rows :
          /\ history.rows[i]["Status"] # "Completed"
          /\ \E k \in DOMAIN catalog.rows :
                catalog.rows[k]["Course"] = history.rows[i]["Training Name"]

\* C2: the returned table is ordered by score descending (adjacent rows
\* i, i+1 have score[i] >= score[i+1]) and every row the top-N cut leaves
\* out has a score no greater than every returned score.
C2_SortedByScoreDescending ==
    Returned =>
        /\ \A i \in 1..(Len(result.rows) - 1) :
              /\ IsNum(result.rows[i]["score"])
              /\ IsNum(result.rows[i + 1]["score"])
              /\ Leq(result.rows[i + 1]["score"], result.rows[i]["score"])
        /\ \A k \in LeftOut : \A i \in DOMAIN result.rows :
              Leq(df.rows[k]["score"], result.rows[i]["score"])

\* The cut left out a row of strictly lower score that stands earlier in
\* the catalog than the first returned row.
C2_Witness ==
    /\ Returned
    /\ Len(result.rows) > 0
    /\ \E k \in LeftOut :
          /\ Less(df.rows[k]["score"], result.rows[1]["score"])
          /\ df.index[k] < result.index[1]

\* C3: every row build_signals produces has CompletionRate, Popularity and
\* CostEfficiency within [0,1], none of them missing.
C3_SignalsWithinUnitInterval ==
    cat # Unset =>
        \A k \in DOMAIN cat.rows :
            /\ InUnit(cat.rows[k]["CompletionRate"])
            /\ InUnit(cat.rows[k]["Popularity"])
            /\ InUnit(cat.rows[k]["CostEfficiency"])

\* build_signals produced rows from a history that names a course absent
\* from the catalog and a catalog with a missing cost, one row having a
\* Popularity strictly between 0 and 1.
C3_Witness ==
    /\ cat # Unset
    /\ "Z" \in HistoryCourses
    /\ \E k \in DOMAIN cat.rows : StrictlyInUnit(cat.rows[k]["Popularity"])
    /\ \E k \in DOMAIN cat.rows : ~IsNum(cat.rows[k]["Cost_KWD"])

\* C4: in every returned row, score = 0.50*CompletionRate
\* + 0.35*CostEfficiency + 0.15*Popularity + boost, the signals being those
\* of the same row and boost the org-fit boost of the row for the employee.
C4_ScoreIsWeightedSumPlusBoost ==
    Returned =>
        \A k \in DOMAIN result.rows :
            LET r == result.rows[k]
                cr == r["CompletionRate"]
                ce == r["CostEfficiency"]
                po == r["Popularity"]
                boost == match_boost(r, emp_row)
            IN  SameNum(r["score"],
                        Num(50 * cr.n * ce.d * po.d * boost.d
                              + 35 * ce.n * cr.d * po.d * boost.d
                              + 15 * po.n * cr.d * ce.d * boost.d
                              + 100 * boost.n * cr.d * ce.d * po.d,
                            100 * cr.d * ce.d * po.d * boost.d))

\* A returned row has a CostEfficiency strictly between 0 and 1 and a
\* positive boost.
C4_Witness ==
    /\ Returned
    /\ \E k \in DOMAIN result.rows :
          /\ StrictlyInUnit(result.rows[k]["CostEfficiency"])
          /\ match_boost(result.rows[k], emp_row).n > 0

\* The employee has the field and the item's cell holds the same value.
SameValue(item, key) == key \in DOMAIN emp_row /\ item[key] = emp_row[key]

\* C5: the boost of every scored row is 2.0 if the item's Department equals
\* the employee's, plus 1.5 if the item's Section equals the employee's
\* (3.5 for both, 0 for neither); an item matching both scores exactly 3.5
\* more than an item with the same signals matching neither.
C5_OrgFitBoostAdditive ==
    pc \in {"sort", "returned"} =>
        /\ \A k \in DOMAIN df.rows :
              df.rows[k]["match_boost"]
                = Num((IF SameValue(df.rows[k], "Department") THEN 200 ELSE 0)
                      + (IF SameValue(df.rows[k], "Section") THEN 150 ELSE 0), 100)
        /\ \A a, b \in DOMAIN df.rows :
              /\ SameValue(df.rows[a], "Department")
              /\ SameValue(df.rows[a], "Section")
              /\ ~SameValue(df.rows[b], "Department")
              /\ ~SameValue(df.rows[b], "Section")
              /\ SameNum(df.rows[a]["CompletionRate"], df.rows[b]["CompletionRate"])
              /\ SameNum(df.rows[a]["CostEfficiency"], df.rows[b]["CostEfficiency"])
              /\ SameNum(df.rows[a]["Popularity"], df.rows[b]["Popularity"])
              => LET sa == df.rows[a]["score"]
                     sb == df.rows[b]["score"]
                 IN  2 * (sa.n * sb.d - sb.n * sa.d) = 7 * sa.d * sb.d

\* C6: rows of equal score keep their catalog order, in the returned table
\* and in deciding which of them survives the top-N cut.
C6_TiesKeepCatalogOrder ==
    Returned /\ TopN(topn) > 0 =>
        /\ \A i, j \in DOMAIN result.rows :
              i < j /\ SameNum(result.rows[i]["score"], result.rows[j]["score"])
              => result.index[i] < result.index[j]
        /\ \A k \in LeftOut : \A i \in DOMAIN result.rows :
              SameNum(df.rows[k]["score"], result.rows[i]["score"])
              => result.index[i] < df.index[k]

\* C7: for a positive N (8 when topn is left out) recommend returns exactly
\* min(N, number of catalog rows whose course is not in the history) rows,
\* never more than N, each carrying exactly the twelve output columns.
C7_AtMostTopNRows ==
    LET n == IF topn.given THEN topn.n ELSE 8
    IN  Returned /\ n > 0 =>
            /\ Len(result.rows) = Min(n, Cardinality(Eligible))
            /\ Len(result.rows) <= n
            /\ \A k \in DOMAIN result.rows :
                  DOMAIN result.rows[k]
                    = {"Course", "Provider", "Department", "Section", "Level",
                       "Hours", "Cost_KWD", "Skills", "CompletionRate",
                       "CostEfficiency", "Popularity", "score"}

\* A call with topn = 1 returned one row out of two eligible ones.
C7_Witness ==
    /\ Returned
    /\ topn.given
    /\ topn.n = 1
    /\ Cardinality(Eligible) = 2
    /\ Len(result.rows) = 1

\* C8: a call with a non-positive top-N does not return a table.
C8_NonPositiveTopNRejected ==
    TopN(topn) <= 0 => ~Returned

\* The required columns the catalog lacks.
CatalogLacks == {c \in Range(CAT_REQ) : c \notin catalog.columns}

\* C9: when the catalog lacks required columns, recommend fails with an
\* error naming exactly the missing columns, before any signal computation,
\* filtering or scoring.
C9_MissingCatalogColumnsRejectedFirst ==
    CatalogLacks # {} /\ pc # "check" =>
        /\ pc = "raised"
        /\ raised.type = "ValueError"
        /\ Range(raised.names) = CatalogLacks
        /\ Len(raised.names) = Cardinality(CatalogLacks)
        /\ trace = <<"check">>
        /\ cat = Unset
        /\ df = Unset
        /\ result = Unset

\* A call on a one-row catalog lacking Course and Cost_KWD has raised.
C9_Witness ==
    /\ pc = "raised"
    /\ CatalogLacks = {"Course", "Cost_KWD"}
    /\ Len(catalog.rows) = 1

\* The required columns the history lacks.
HistoryLacks == {c \in {"Training Name", "Status"} : c \notin history.columns}

\* C10: when a non-empty history lacks Training Name or Status, the call
\* fails with an error that lists the missing columns, raised before any
\* processing.
C10_MissingHistoryColumnsRejectedFirst ==
    /\ HasHistory(history)
    /\ HistoryLacks # {}
    /\ CatalogLacks = {}
    /\ pc \in {"raised", "returned"}
    => /\ pc = "raised"
       /\ Range(raised.names) = HistoryLacks
       /\ trace = <<"check">>
\* The Training Names of the rows of tr that carry the selected employee's
\* code.
OwnCourses ==
    {tr.rows[i]["Training Name"] :
        i \in {j \in DOMAIN tr.rows :
                  str(tr.rows[j]["Employee Code"]) = str(emp_row["Employee Code"])}}

\* C11: when the page is about to call recommend, the history it passes
\* excludes exactly the selected employee's own courses, and the
\* CompletionRate and Popularity that build_signals derives from it for each
\* catalog item are those of the entire trainings table.
C11_SignalsFromEntireHistory ==
    pc = "call" =>
        LET own == build_signals(catalog, history)
            all == build_signals(catalog, tr)
        IN  /\ taken(history) = OwnCourses
            /\ own.error = NoError /\ all.error = NoError =>
                   \A k \in DOMAIN catalog.rows :
                       /\ SameNum(own.frame.rows[k]["CompletionRate"],
                                  all.frame.rows[k]["CompletionRate"])
                       /\ SameNum(own.frame.rows[k]["Popularity"],
                                  all.frame.rows[k]["Popularity"])


\* The history rows that name a course, and those of them that are Completed.
Enrolled(name) ==
    {i \in DOMAIN history.rows : history.rows[i]["Training Name"] = name}
Completed(name) ==
    {i \in Enrolled(name) : history.rows[i]["Status"] = "Completed"}

\* The catalog positions that hold the first row of their course.
FirstOfCourse ==
    {k \in DOMAIN catalog.rows :
        \A j \in DOMAIN catalog.rows :
            catalog.rows[j]["Course"] = catalog.rows[k]["Course"] => k <= j}

\* The sum of the Popularity cells of the rows of cat at the positions in
\* keep that are at most n.
RECURSIVE SumPopularity(_, _)
SumPopularity(n, keep) ==
    IF n = 0 THEN Num(0, 1)
    ELSE LET s == SumPopularity(n - 1, keep)
             x == cat.rows[n]["Popularity"]
         IN  IF n \in keep THEN Num(s.n * x.d + x.n * s.d, s.d * x.d) ELSE s

\* Every catalog row has the completion rate done/taken of its course (0
\* when the history does not name it).
CompletionRateIsDoneOverTaken ==
    \A k \in DOMAIN cat.rows :
        LET name == cat.rows[k]["Course"]
            cr == cat.rows[k]["CompletionRate"]
        IN  /\ IsNum(cr)
            /\ IF Enrolled(name) = {} THEN cr.n = 0
               ELSE cr.n * Cardinality(Enrolled(name))
                      = Cardinality(Completed(name)) * cr.d

Priced == {k \in DOMAIN catalog.rows : IsNum(catalog.rows[k]["Cost_KWD"])}

\* The cost at position k, and that cost with a negative value taken as 0.
CostAt(k) == catalog.rows[k]["Cost_KWD"]
CostFloored(k) == IF CostAt(k).n < 0 THEN Num(0, 1) ELSE CostAt(k)

\* C13 as stated: CostEfficiency is 1 - cost/max_cost, max_cost being the
\* largest cost of the catalog, and 0 for every item when max_cost is 0.
C13_CostEfficiencyIsOneMinusShare ==
    cat # Unset =>
        \A k \in Priced :
            LET ce == cat.rows[k]["CostEfficiency"]
                c == CostAt(k)
                m == CostAt(CHOOSE i \in Priced :
                                \A j \in Priced : Leq(CostAt(j), CostAt(i)))
            IN  /\ IsNum(ce)
                /\ IF m.n = 0 THEN ce.n = 0
                   ELSE ce.n * (m.n * c.d) = (m.n * c.d - c.n * m.d) * ce.d

\* C13, amended: with negative costs counted as 0, CostEfficiency is
\* 1 - cost/max_cost, max_cost being the largest cost of the catalog; it is
\* 0 for every item when max_cost is 0 and for an item without a cost.  In
\* particular costs in the proportion 0 : 1 : 2 (0, 100 and 200 KWD) give
\* 1.0, 0.5 and 0.0.
C13_CostEfficiencyOfFlooredCost ==
    cat # Unset =>
        \A k \in DOMAIN cat.rows :
            LET ce == cat.rows[k]["CostEfficiency"]
                m == CostFloored(CHOOSE i \in Priced :
                        \A j \in Priced : Leq(CostFloored(j), CostFloored(i)))
            IN  /\ IsNum(ce)
                /\ IF k \notin Priced \/ m.n = 0 THEN ce.n = 0
                   ELSE LET c == CostFloored(k)
                        IN  /\ ce.n * (m.n * c.d) = (m.n * c.d - c.n * m.d) * ce.d
                            /\ m.n = 2 * m.d /\ c.n = 0 => ce.n = ce.d
                            /\ m.n = 2 * m.d /\ c.n = c.d => 2 * ce.n = ce.d
                            /\ m.n = 2 * m.d /\ c.n = 2 * c.d => ce.n = 0

\* Signals were built for a catalog holding a negative cost next to the
\* largest cost, 2.
C13_Witness ==
    /\ cat # Unset
    /\ \E j, k \in Priced :
          /\ CostAt(j).n < 0
          /\ CostAt(k).n = 2 * CostAt(k).d

\* The boost of a catalog row for the employee, in hundredths.
BoostFor(row) ==
    (IF PdEq(row["Department"], str(get(emp_row, "Department", Text(""))))
     THEN BOOST_DEPT ELSE 0)
    + (IF PdEq(row["Section"], str(get(emp_row, "Section", Text(""))))
       THEN BOOST_SECT ELSE 0)

\* C14: when the history is None or empty, every catalog item gets
\* CompletionRate 0 and Popularity 0, no item is excluded, and each item's
\* score is 0.35 * CostEfficiency + boost.
C14_EmptyHistoryScores ==
    ~HasHistory(history) =>
        /\ cat # Unset =>
              \A k \in DOMAIN cat.rows :
                  /\ SameNum(cat.rows[k]["CompletionRate"], Num(0, 1))
                  /\ SameNum(cat.rows[k]["Popularity"], Num(0, 1))
        /\ df # Unset =>
              /\ df.index = catalog.index
              /\ \A k \in DOMAIN df.rows :
                    LET ce == df.rows[k]["CostEfficiency"]
                    IN  SameNum(df.rows[k]["score"],
                                Num(W_COST_EFF * ce.n + BoostFor(df.rows[k]) * ce.d,
                                    100 * ce.d))

\* A call without history scored a row that has a positive CostEfficiency
\* and matches the employee's Department and Section.
C14_Witness ==
    /\ ~HasHistory(history)
    /\ df # Unset
    /\ \E k \in DOMAIN df.rows :
          /\ df.rows[k]["CostEfficiency"].n > 0
          /\ BoostFor(df.rows[k]) = BOOST_DEPT + BOOST_SECT


\* A call that has ended with the arguments of the earlier call has the
\* outcome of the earlier call.
SameOutcomeAsEarlier ==
    /\ pc \in {"returned", "raised"}
    /\ earlier # NoneFrame
    => (earlier.args = Arguments
           => earlier.result = result /\ earlier.raised = raised)

\* No step of a call changes the caller's catalog or history.
TablesLeftAlone ==
    pc' # "check" => catalog' = catalog /\ history' = history

Aggregated == pc \in {"cluster", "label", "returned", "raised"}

\* The rows of employee_metrics as the aggregation gave them.
AggregateColumns(m) ==
    [i \in DOMAIN m |->
        Restrict(m[i], {"employee_id", "employee_name", "department",
                        "avg_score", "total_trainings", "completed_trainings"})]

Permuted(rows, p) == [i \in DOMAIN rows |-> rows[p[i]]]

\* The records {E1,60}, {E1,80}, {E2,50}.
ExampleRecords ==
    <<TrainingRecord("E1", "Ann", "HR", 1, 60, "Completed"),
      TrainingRecord("E1", "Ann", "HR", 1, 80, "Completed"),
      TrainingRecord("E2", "Bob", "IT", 1, 50, "In Progress")>>

\* C16: the aggregation of any permutation of the records is the
\* aggregation of the records (the same count, mean score and completed
\* count for every employee); the records {E1,60}, {E1,80}, {E2,50} give, in
\* any order, E1 the mean 70 over 2 records and E2 the mean 50 over 1.
C16_AggregationIgnoresOrder ==
    Aggregated =>
        /\ \A p \in Perms(Len(filtered_df)) :
              groupby_agg(Permuted(filtered_df, p))
                = AggregateColumns(employee_metrics)
        /\ (\E p \in Perms(Len(ExampleRecords)) :
               filtered_df = Permuted(ExampleRecords, p))
           => /\ Len(employee_metrics) = 2
              /\ employee_metrics[1].employee_id = "E1"
              /\ SameNum(employee_metrics[1].avg_score, Num(70, 1))
              /\ employee_metrics[1].total_trainings = 2
              /\ employee_metrics[2].employee_id = "E2"
              /\ SameNum(employee_metrics[2].avg_score, Num(50, 1))
              /\ employee_metrics[2].total_trainings = 1

\* The example records were aggregated in the order {E2,50}, {E1,80},
\* {E1,60}.
C16_Witness ==
    /\ Aggregated
    /\ filtered_df = Permuted(ExampleRecords, <<3, 2, 1>>)


\* The employee ids of the records, and the records of one employee.
EmployeeIds == {filtered_df[i].employee_id : i \in DOMAIN filtered_df}
RecordsOf(e) == {i \in DOMAIN filtered_df : filtered_df[i].employee_id = e}

RECURSIVE SumTotalTrainings(_)
SumTotalTrainings(n) ==
    IF n = 0 THEN 0
    ELSE SumTotalTrainings(n - 1) + employee_metrics[n].total_trainings

\* C17: the aggregation has exactly one row for every employee_id of the
\* records, with total_trainings the number of that employee's records and
\* completed_trainings the number of them that are Completed; the
\* total_trainings sum to the number of records.
C17_OneRowPerEmployee ==
    Aggregated =>
        /\ \A e \in EmployeeIds :
              Cardinality({i \in DOMAIN employee_metrics :
                              employee_metrics[i].employee_id = e}) = 1
        /\ \A i \in DOMAIN employee_metrics :
              LET mine == RecordsOf(employee_metrics[i].employee_id)
              IN  /\ mine # {}
                  /\ employee_metrics[i].total_trainings = Cardinality(mine)
                  /\ employee_metrics[i].completed_trainings
                       = Cardinality({j \in mine :
                                         filtered_df[j].status = "Completed"})
        /\ SumTotalTrainings(Len(employee_metrics)) = Len(filtered_df)


\* The rows of employee_metrics labelled lab.
Labelled(lab) ==
    {i \in DOMAIN employee_metrics :
        employee_metrics[i].performance_category = lab}

\* The sum of the avg_score of the rows labelled lab among the first n.
RECURSIVE SumAvgScore(_, _)
SumAvgScore(lab, n) ==
    IF n = 0 THEN Num(0, 1)
    ELSE LET s == SumAvgScore(lab, n - 1)
             x == employee_metrics[n].avg_score
         IN  IF n \in Labelled(lab)
             THEN Num(s.n * x.d + x.n * s.d, s.d * x.d) ELSE s

\* The mean avg_score of the rows labelled hi is at least that of the rows
\* labelled lo (when both labels occur).
MeanAtLeast(hi, lo) ==
    Labelled(hi) # {} /\ Labelled(lo) # {} =>
        LET a == SumAvgScore(hi, Len(employee_metrics))
            b == SumAvgScore(lo, Len(employee_metrics))
        IN  a.n * b.d * Cardinality(Labelled(lo))
              >= b.n * a.d * Cardinality(Labelled(hi))

\* C18: when perform_clustering has returned, the mean avg_score of the
\* High Performers is at least that of the Average Performers, which is at
\* least that of the employees labelled Needs Improvement.
C18_LabelsOrderedByMeanScore ==
    pc = "returned" /\ employee_metrics # <<>> =>
        /\ MeanAtLeast("High Performer", "Average Performer")
        /\ MeanAtLeast("Average Performer", "Needs Improvement")
        /\ MeanAtLeast("High Performer", "Needs Improvement")


\* C19: for records of fewer than 3 distinct employees (none included)
\* perform_clustering raises no error, and the clusters it forms, if any,
\* are fewer than 3 (at most one per employee).
C19_FewEmployeesHandled ==
    Cardinality(EmployeeIds) < N_CLUSTERS =>
        /\ pc # "raised"
        /\ pc \in {"label", "returned"} =>
              \A i \in DOMAIN employee_metrics :
                  employee_metrics[i].cluster < Cardinality(EmployeeIds)


\* C20: every record of the session's training data has the status
\* Completed exactly when its score is at least 60, and In Progress
\* otherwise.
C20_StatusFollowsScore ==
    \A i \in DOMAIN training_data.rows :
        /\ training_data.rows[i].status = "Completed"
             <=> training_data.rows[i].score >= 60
        /\ training_data.rows[i].status \in {"Completed", "In Progress"}



\* list_employees has finished, by returning or by raising.
Listed == pc \in {"returned", "raised"} /\ environ # <<>>

\* The switch selects the remote store.
RemoteSelected == BACKEND = Chars_supabase

\* The remote load fails: credentials missing, service unreachable or
\* query refused.
RemoteFails == load_employees_supabase.raised # NoError

UpperCase ==
    [s |-> "S", u |-> "U", p |-> "P", a |-> "A", b |-> "B", e |-> "E"]

ReadsSupabase ==
    /\ "DATA_BACKEND" \in DOMAIN environ
    /\ LET v == environ["DATA_BACKEND"]
       IN  /\ Len(v) = Len(Chars_supabase)
           /\ \A i \in DOMAIN v :
                 v[i] \in {Chars_supabase[i], UpperCase[Chars_supabase[i]]}

\* The table of the remote store that the environment names.
RemoteData == supabase[environ_get("SUPABASE_EMP_TABLE", "employees")]

\* The remote load succeeds with a table that has rows.
RemoteDelivers ==
    /\ ~CredentialsMissing
    /\ supabase.status = "up"
    /\ ~RemoteData.none
    /\ Len(RemoteData.rows) > 0

Missing ==
    {c \in Range(REQ) :
        \A k \in DOMAIN input_file.columns : Kind(input_file.columns[k]) # c}

\* C22: when a required column is absent after the headers are
\* normalized, ingestion stops: the exit reports exactly the missing
\* columns, no cell has been coerced and no training_catalog.csv is written.
C22_MissingColumnsFatal ==
    (~input_file.none /\ Missing # {}) =>
        /\ pc \in {"mkdir", "load", "rename", "required", "exited"}
        /\ outdir.training_catalog = Unset
        /\ normal = Unset \/ normal.rows = input_file.rows
        /\ pc = "exited" =>
              /\ raised.type = "SystemExit"
              /\ Range(raised.names) = Missing
              /\ Len(raised.names) = Cardinality(Missing)

\* The run has exited for two missing columns, on a table with a cost
\* that is no number.
C22_Witness ==
    /\ ~input_file.none
    /\ pc = "exited"
    /\ Missing = {"Course", "Level"}
    /\ \E r \in DOMAIN normal.rows : TextCost \in Range(normal.rows[r])
    /\ outdir.exists

\* C23: no Cost_KWD value that is not a number makes the recommender's
\* cost-efficiency computation fail (nor does ingestion fail on one).
C23_CostConversionNeverFails == raised # ConvertError

\* normalize has returned (main goes on to write the table).
NormalizeReturned == pc \in {"write", "written"}

\* C30: for an input that passes the required-column check, normalize
\* returns a table whose columns are exactly REQ, each once and in that
\* order, and normalize applied to that table returns it unchanged.
C30_ColumnsExactlyRequired ==
    (~input_file.none /\ Missing = {}) =>
        /\ pc # "raised"
        /\ NormalizeReturned =>
              /\ normal.columns = REQ
              /\ normalize(normal) = [raised |-> NoError, df |-> normal]

\* Ingestion has written a table whose Hours and Cost_KWD cells are numbers.
IngestedNumeric ==
    (~input_file.none /\ NormalizeReturned) =>
        \A r \in DOMAIN normal.rows : \A k \in DOMAIN normal.columns :
            normal.columns[k] \in {"Hours", "Cost_KWD"}
                => IsNum(normal.rows[r][k])

\* No header kind occurs twice in the input file.
KindsOnce ==
    \A j, k \in DOMAIN input_file.columns :
        Kind(input_file.columns[j]) = Kind(input_file.columns[k]) => j = k

\* Without two headers of one kind, normalize returns exactly REQ.
RequiredColumnsWhenKindsOnce == KindsOnce => C30_ColumnsExactlyRequired


\* The inference part of the page (lines 46-63) has been reached.
AtInference == pc \in {"inference", "predicted", "rendered"}

LastShown == IF shown = <<>> THEN "" ELSE shown[Len(shown)]

\* The branches of the train-or-load flow, step by step.
TrainOrLoadFlow ==
    /\ (pc = "start" /\ MODEL_file)
          => pc' = "inference" /\ pipe' = "loaded"
    /\ (pc = "start" /\ pc' = "training")
          => ~MODEL_file /\ DATA_file.exists
    /\ (pc = "start" /\ ~MODEL_file /\ ~DATA_file.exists)
          => /\ pc' = "stopped"
             /\ pipe' = "None"
             /\ shown' = <<"warning: No model and no training data available.">>
    /\ (pc = "trained" /\ (exit_code # 0 \/ ~MODEL_file))
          => /\ pc' = "stopped"
             /\ pipe' = "None"
             /\ shown'[Len(shown')] = "error: Training failed."
    /\ (pc = "trained" /\ exit_code = 0 /\ MODEL_file)
          => pc' = "inference" /\ pipe' = "loaded"

\* C24: the prediction step is reached only with a loaded model; the model
\* is loaded if the artifact exists, otherwise training runs only if the
\* data file exists, the page reports failure and stops whenever training
\* returns non-zero or leaves no artifact, and with neither model nor data
\* it stops with a warning.
C24_PredictOnlyWithLoadedModel ==
    /\ [](AtInference => pipe = "loaded")
    /\ [](pc = "stopped" => pipe = "None")
    /\ [][TrainOrLoadFlow]_vars

\* The trainer has exited 0 without writing the artifact, and the page
\* has stopped with the error.
C24_Witness ==
    /\ pc = "stopped"
    /\ exit_code = 0
    /\ ~MODEL_file
    /\ shown = <<"info: Model not found. Training", "error: Training failed.">>


\* The stored records before a step are the first stored records after it.
StoredKept ==
    /\ Len(training_data'.rows) >= Len(training_data.rows)
    /\ SubSeq(training_data'.rows, 1, Len(training_data.rows))
         = training_data.rows

\* What the steps of a run after the sidebar do to the stored records.
FormAndFilterSteps ==
    /\ (pc = "tab4" /\ form'.submitted
          /\ form'.employee_id # "" /\ form'.employee_name # "")
          => /\ StoredKept
             /\ Len(training_data'.rows) = Len(training_data.rows) + 1
             /\ LET new == training_data'.rows[Len(training_data'.rows)]
                IN  /\ new.employee_id = form'.employee_id
                    /\ new.employee_name = form'.employee_name
                    /\ new.score = form'.score
             /\ message' = "success: Training record added"
    /\ (pc = "tab4" /\ form'.submitted
          /\ (form'.employee_id = "" \/ form'.employee_name = ""))
          => /\ training_data' = training_data
             /\ message' = "error: Please fill in all required fields!"
    /\ (pc = "tab4" /\ ~form'.submitted) => training_data' = training_data
    /\ pc \in {"filters", "tab5"} => training_data' = training_data

C27_IdsUnique ==
    \A i, j \in DOMAIN notifications :
        notifications[i].id = notifications[j].id => i = j

\* C28: whenever the footer's read rate is computed the session's list is
\* non-empty, also after Mark All as Read followed by Clear Read
\* Notifications; the division never has a zero denominator.
C28_FooterListNonEmpty ==
    /\ raised # ZeroDivisionError
    /\ pc \in {"simulate", "done"} => Len(notifications) > 0
    /\ pc = "done" =>
          /\ IsNum(read_rate)
          /\ read_rate.d = Len(notifications)
          /\ read_rate.d > 0

\* Mark All as Read, then Clear Read Notifications: the emptied list has
\* been loaded again before the footer was computed.
C28_Witness ==
    /\ pc = "done"
    /\ clicks = <<"mark_all", "clear">>
    /\ SameNum(read_rate, Num(40, 1))
    /\ Len(notifications) = Len(generate_sample_notifications)


\* x is a percentage: a number from 0 to 100.
IsPercentage(x) == IsNum(x) /\ 0 <= x.n /\ x.n <= 100 * x.d

\* The rates of generate_ml_features are percentages.
FeatureRatesArePercentages ==
    \A k \in DOMAIN ml_features : IsPercentage(ml_features[k].completion_rate)

\* C29: every completion rate computed by the aggregation helpers is a
\* percentage from 0 to 100: the completion_rate of every row of
\* generate_ml_features and the Completion_Rate of every row of
\* calculate_department_stats.
C29_RatesArePercentages ==
    /\ FeatureRatesArePercentages
    /\ \A k \in DOMAIN dept_stats : IsPercentage(dept_stats[k].Completion_Rate)

\* The script has computed both tables, and one employee of a department
\* has two completed records.
SeveralCompletedOfOneEmployee ==
    /\ pc = "save"
    /\ \E i, j \in DOMAIN training_df :
          /\ i # j
          /\ training_df[i].employee_id = training_df[j].employee_id
          /\ training_df[i].department = training_df[j].department
          /\ training_df[i].status = "Completed"
          /\ training_df[j].status = "Completed"


====
